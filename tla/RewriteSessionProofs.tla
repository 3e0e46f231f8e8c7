------------------------- MODULE RewriteSessionProofs -------------------------
(***************************************************************************)
(* Proofs that canonicalization is skipped only for a circuit it returned, *)
(* that the keys and gate counts kept with a proof are those of the        *)
(* current circuit, and that no rule matches at an anchor a rewrite skips; *)
(* for any gates, rules, configurations, edits and lengths, and however    *)
(* early the revision counter wraps.                                       *)
(***************************************************************************)
EXTENDS RewriteSession, FoldTheorems, SequenceTheorems

(* The revision is in range, and no canonical proof is of a later one: the *)
(* proof of a revision that wrapped was dropped.                           *)
ProofNotAhead ==
    /\ revision \in 0..(Revisions - 1)
    /\ canonical = None \/ canonical \in 0..revision

(* The rewrite being executed, as far as it matters here. *)
RunShape ==
    run # Idle =>
        /\ run = [x \in DOMAIN run |-> run[x]]
        /\ {"round", "changed"} \subseteq DOMAIN run
        /\ run.round \in Nat \ {0}

(* The proof of the current revision is about the current circuit, until a *)
(* rewrite that is being executed changes the circuit under the revision.  *)
ProofIsCurrent ==
    canonical = revision /\ (run # Idle => ~ run.changed) => unchanged

IInv == ProofNotAhead /\ RunShape /\ ProofIsCurrent

-----------------------------------------------------------------------------
(* The next revision is in range and another one, unless there is only one. *)
LEMMA NextRevisionInRange ==
    ASSUME revision \in 0..(Revisions - 1)
    PROVE  /\ NextRevision \in 0..(Revisions - 1)
           /\ NextRevision = 0 \/ NextRevision = revision + 1
BY Widths DEF NextRevision

(* Advancing the revision leaves every proof that is kept behind. *)
LEMMA AdvanceOutdates ==
    ASSUME ProofNotAhead, revision' = NextRevision,
           canonical' = IF NextRevision = 0 THEN None ELSE canonical
    PROVE  ProofNotAhead' /\ canonical' # revision'
<1>1. revision' \in 0..(Revisions - 1) /\ (NextRevision = 0 \/ NextRevision = revision + 1)
  BY NextRevisionInRange DEF ProofNotAhead
<1>2. CASE NextRevision = 0
  BY <1>1, <1>2, Widths DEF ProofNotAhead
<1>3. CASE NextRevision # 0
  BY <1>1, <1>3, Widths DEF ProofNotAhead
<1> QED
  BY <1>2, <1>3

LEMMA InitIInv == Init => IInv
BY Widths DEF Init, IInv, ProofNotAhead, RunShape, ProofIsCurrent

LEMMA PassKeeps == ASSUME IInv, Pass PROVE IInv'
<1>1. /\ revision' = NextRevision
      /\ canonical' = IF NextRevision = 0 THEN None ELSE canonical
      /\ run' = run /\ run = Idle
  BY DEF Pass, Adopt
<1>2. ProofNotAhead' /\ canonical' # revision'
  BY <1>1, AdvanceOutdates DEF IInv
<1> QED
  BY <1>1, <1>2 DEF IInv, RunShape, ProofIsCurrent

LEMMA OptimizeNativeKeeps == ASSUME IInv, OptimizeNative PROVE IInv'
<1>1. ProofNotAhead' /\ canonical' # revision'
  BY AdvanceOutdates DEF IInv, OptimizeNative
<1> QED
  BY <1>1 DEF OptimizeNative, IInv, RunShape, ProofIsCurrent

LEMMA CanonicalizeKeeps == ASSUME IInv, Canonicalize PROVE IInv'
<1>1. revision' = revision \/ revision' = NextRevision
  BY DEF Canonicalize
<1>2. revision' \in 0..(Revisions - 1) /\ canonical' = revision' /\ unchanged' = TRUE /\ run' = run
  BY <1>1, NextRevisionInRange DEF Canonicalize, IInv, ProofNotAhead
<1> QED
  BY <1>2 DEF IInv, ProofNotAhead, RunShape, ProofIsCurrent

LEMMA RewriteKeeps == ASSUME IInv, NEW cfg \in Configs, Rewrite(cfg) PROVE IInv'
<1>1. /\ run = Idle
      /\ UNCHANGED <<revision, canonical, unchanged>>
  BY DEF Rewrite
<1>2. /\ run' = [x \in DOMAIN run' |-> run'[x]]
      /\ {"round", "changed"} \subseteq DOMAIN run'
      /\ run'.round = 1
  BY DEF Rewrite
<1> QED
  BY <1>1, <1>2 DEF IInv, ProofNotAhead, RunShape, ProofIsCurrent

LEMMA RoundKeeps == ASSUME IInv, Round PROVE IInv'
<1>1. /\ run # Idle
      /\ UNCHANGED <<revision, canonical, unchanged>>
  BY DEF Round
<1>2. /\ run' = [x \in DOMAIN run |-> run'[x]]
      /\ DOMAIN run' = DOMAIN run
      /\ run'.round = run.round + 1
      /\ run'.changed = TRUE
  BY <1>1 DEF Round, IInv, RunShape
<1>3. run'.round # 0 /\ run'.round \in Nat \ {0}
  BY <1>1, <1>2 DEF IInv, RunShape
<1>4. run' # Idle
  BY <1>3 DEF Idle
<1> QED
  BY <1>1, <1>2, <1>3, <1>4 DEF IInv, ProofNotAhead, RunShape, ProofIsCurrent

LEMMA RecordKeeps == ASSUME IInv, Record PROVE IInv'
<1>1. run # Idle /\ run' = Idle
  BY DEF Record
<1>2. CASE run.changed
  <2>1. /\ revision' = NextRevision
        /\ canonical' = IF NextRevision = 0 THEN None ELSE canonical
    BY <1>2 DEF Record
  <2> QED
    BY <1>1, <2>1, AdvanceOutdates DEF IInv, RunShape, ProofIsCurrent
<1>3. CASE ~ run.changed
  <2>1. revision' = revision /\ canonical' = canonical
    BY <1>3 DEF Record
  <2>2. unchanged => unchanged'
    BY <1>3 DEF Record
  <2> QED
    BY <1>1, <1>3, <2>1, <2>2 DEF IInv, ProofNotAhead, RunShape, ProofIsCurrent
<1> QED
  BY <1>2, <1>3

(* The invariant is inductive. *)
THEOREM Inductive == Spec => []IInv
<1>1. ASSUME IInv, [Next]_vars PROVE IInv'
  <2>1. CASE Pass
    BY <1>1, <2>1, PassKeeps
  <2>2. CASE OptimizeNative
    BY <1>1, <2>2, OptimizeNativeKeeps
  <2>3. CASE Canonicalize
    BY <1>1, <2>3, CanonicalizeKeeps
  <2>4. CASE Detach
    BY <1>1, <2>4 DEF Detach, IInv, ProofNotAhead, RunShape, ProofIsCurrent
  <2>5. CASE \E cfg \in Configs : Rewrite(cfg)
    BY <1>1, <2>5, RewriteKeeps
  <2>6. CASE Round
    BY <1>1, <2>6, RoundKeeps
  <2>7. CASE Record
    BY <1>1, <2>7, RecordKeeps
  <2>8. CASE UNCHANGED vars
    BY <1>1, <2>8 DEF vars, IInv, ProofNotAhead, RunShape, ProofIsCurrent
  <2> QED
    BY <1>1, <2>1, <2>2, <2>3, <2>4, <2>5, <2>6, <2>7, <2>8 DEF Next
<1> QED
  BY InitIInv, <1>1, PTL DEF Spec

(* Canonicalization is skipped only for the very circuit it returned last. *)
THEOREM SkippedCanonicalIsFresh == Spec => []CanonicalProofIsFresh
<1>1. IInv => CanonicalProofIsFresh
  BY DEF IInv, ProofIsCurrent, CanonicalProofIsFresh
<1> QED
  BY Inductive, <1>1, PTL

-----------------------------------------------------------------------------
(* Keys of spliced circuits *)

LEMMA KeysShape ==
    ASSUME NEW c \in Seq(Ops)
    PROVE  Keys(c) \in Seq(Gates) /\ Len(Keys(c)) = Len(c)
           /\ \A i \in 1..Len(c) : Keys(c)[i] = c[i].gate
<1> DEFINE n == Len(c)
<1>1. n \in Nat /\ \A i \in 1..n : c[i] \in Ops
  OBVIOUS
<1>2. \A i \in 1..n : c[i].gate \in Gates
  BY <1>1 DEF Ops
<1>3. Keys(c) = [i \in 1..n |-> c[i].gate]
  BY DEF Keys
<1> HIDE DEF n
<1>4. Keys(c) \in Seq(Gates) /\ Len(Keys(c)) = n /\ \A i \in 1..n : Keys(c)[i] = c[i].gate
  BY <1>1, <1>2, <1>3
<1> QED BY <1>4 DEF n

LEMMA KeysConcat ==
    ASSUME NEW c \in Seq(Ops), NEW d \in Seq(Ops)
    PROVE  Keys(c \o d) = Keys(c) \o Keys(d)
<1> DEFINE k == Keys(c)
           l == Keys(d)
           e == c \o d
           m == Keys(e)
<1>1. e \in Seq(Ops) /\ Len(e) = Len(c) + Len(d)
      /\ \A i \in 1..Len(e) : e[i] = IF i <= Len(c) THEN c[i] ELSE d[i - Len(c)]
  OBVIOUS
<1>2. /\ k \in Seq(Gates) /\ Len(k) = Len(c) /\ \A i \in 1..Len(c) : k[i] = c[i].gate
      /\ l \in Seq(Gates) /\ Len(l) = Len(d) /\ \A i \in 1..Len(d) : l[i] = d[i].gate
      /\ m \in Seq(Gates) /\ Len(m) = Len(e) /\ \A i \in 1..Len(e) : m[i] = e[i].gate
  <2> HIDE DEF e
  <2> QED BY <1>1, KeysShape
<1> HIDE DEF k, l, e, m
<1>3. /\ k \o l \in Seq(Gates) /\ Len(k \o l) = Len(k) + Len(l)
      /\ \A i \in 1..(Len(k) + Len(l)) :
            (k \o l)[i] = IF i <= Len(k) THEN k[i] ELSE l[i - Len(k)]
  <2>1. k \in Seq(Gates) /\ l \in Seq(Gates)
    BY <1>2
  <2> QED BY <2>1, ConcatProperties
<1> DEFINE kl == k \o l
<1>a. Len(kl) = Len(m) /\ Len(m) = Len(k) + Len(l)
  BY <1>1, <1>2, <1>3
<1>4. ASSUME NEW i \in 1..Len(m) PROVE m[i] = (k \o l)[i]
  <2>1. /\ i \in 1..Len(e) /\ i \in 1..(Len(k) + Len(l))
        /\ m[i] = e[i].gate
    <3>1. i \in 1..Len(e)
      BY <1>2, Zenon
    <3>2. m[i] = e[i].gate
      BY <1>2, <3>1
    <3>3. i \in 1..(Len(k) + Len(l))
      BY <1>a, Zenon
    <3> QED BY <3>1, <3>2, <3>3
  <2>2. CASE i <= Len(c)
    <3>1. i \in 1..Len(c)
      BY <1>1, <2>1, <2>2
    <3> QED BY <1>1, <1>2, <1>3, <2>1, <2>2, <3>1
  <2>3. CASE ~ (i <= Len(c))
    <3>1. i - Len(c) \in 1..Len(d)
      BY <1>1, <2>1, <2>3
    <3> QED BY <1>1, <1>2, <1>3, <2>1, <2>3, <3>1
  <2> QED BY <2>2, <2>3
<1>5. m = k \o l
  BY <1>2, <1>3, <1>4, <1>a, SeqEqual
<1> QED BY <1>5 DEF k, l, e, m

(* The keys of joined pieces are the joined keys of the pieces. *)
LEMMA KeysFlatten ==
    ASSUME NEW n \in Nat, NEW ss \in [1..n -> Seq(Ops)]
    PROVE  /\ FlattenSeq(ss) \in Seq(Ops)
           /\ Keys(FlattenSeq(ss)) = FlattenSeq([i \in 1..n |-> Keys(ss[i])])
<1>1. PICK f \in [0..n -> Seq(Ops)] : Joins(f, ss, n)
  BY JoinsExists
<1>2. FlattenSeq(ss) = f[n] /\ FlattenSeq(ss) \in Seq(Ops)
  BY <1>1, FlattenJoins
<1> DEFINE keys == [i \in 1..n |-> Keys(ss[i])]
           g == [i \in 0..n |-> Keys(f[i])]
<1>3. keys \in [1..n -> Seq(Gates)] /\ g \in [0..n -> Seq(Gates)]
  BY KeysShape
<1>4. g[0] = <<>>
  <2>1. f[0] = <<>>
    BY <1>1 DEF Joins
  <2> QED BY <2>1 DEF Keys
<1>5. ASSUME NEW i \in 1..n PROVE g[i] = g[i - 1] \o keys[i]
  <2>1. f[i] = f[i - 1] \o ss[i]
    BY <1>1 DEF Joins
  <2>2. f[i - 1] \in Seq(Ops) /\ ss[i] \in Seq(Ops)
    OBVIOUS
  <2>3. Keys(f[i]) = Keys(f[i - 1]) \o Keys(ss[i])
    BY <2>1, <2>2, KeysConcat
  <2>4. g[i] = Keys(f[i]) /\ g[i - 1] = Keys(f[i - 1]) /\ keys[i] = Keys(ss[i])
    OBVIOUS
  <2> QED BY <2>3, <2>4
<1>6. g[n] = Keys(f[n])
  OBVIOUS
<1> HIDE DEF g, keys
<1>7. Joins(g, keys, n)
  BY <1>4, <1>5 DEF Joins
<1>8. FlattenSeq(keys) = g[n]
  BY <1>3, <1>7, FlattenJoins
<1> QED BY <1>2, <1>6, <1>8 DEF keys

(* Patching the keys gives the keys of the patched circuit. *)
LEMMA PatchedKeys ==
    ASSUME NEW s \in Seq(Ops), NEW P, \A p \in P : p.output \in Seq(Ops)
    PROVE  /\ Patched(s, P, [p \in P |-> p.output]) \in Seq(Ops)
           /\ Keys(Patched(s, P, [p \in P |-> p.output]))
                = Patched(Keys(s), P, [p \in P |-> Keys(p.output)])
<1> DEFINE first(i) == CHOOSE p \in P : p.first = i
           front(i) == IF \E p \in P : p.first = i THEN first(i).output ELSE <<>>
           back(i) == IF \E p \in P : i \in p.matched THEN <<>> ELSE <<s[i]>>
           piece == [i \in 1..Len(s) |-> front(i) \o back(i)]
           frontKeys(i) == IF \E p \in P : p.first = i THEN Keys(first(i).output) ELSE <<>>
           backKeys(i) == IF \E p \in P : i \in p.matched THEN <<>> ELSE <<Keys(s)[i]>>
<1>1. ASSUME NEW i \in 1..Len(s)
      PROVE  /\ front(i) \in Seq(Ops) /\ back(i) \in Seq(Ops)
             /\ Keys(front(i)) = frontKeys(i) /\ Keys(back(i)) = backKeys(i)
  <2>1. Keys(<<>>) = <<>>
    BY DEF Keys
  <2>2. s[i] \in Ops /\ Keys(s)[i] = s[i].gate
    BY KeysShape
  <2>3. Keys(<<s[i]>>) = <<s[i].gate>>
    BY <2>2 DEF Keys
  <2>4. front(i) \in Seq(Ops) /\ Keys(front(i)) = frontKeys(i)
    BY <2>1
  <2>5. back(i) \in Seq(Ops) /\ Keys(back(i)) = backKeys(i)
    BY <2>1, <2>2, <2>3
  <2> QED BY <2>4, <2>5
<1>2. piece \in [1..Len(s) -> Seq(Ops)]
  <2> HIDE DEF front, back
  <2> QED BY <1>1
<1>3. \A i \in 1..Len(s) : Keys(piece[i]) = frontKeys(i) \o backKeys(i)
  <2> HIDE DEF front, back, frontKeys, backKeys
  <2> QED BY <1>1, KeysConcat
<1>4. Patched(s, P, [p \in P |-> p.output]) = FlattenSeq(piece)
  <2> DEFINE given(i) == IF \E p \in P : p.first = i THEN [p \in P |-> p.output][first(i)] ELSE <<>>
  <2>1. ASSUME NEW i \in 1..Len(s) PROVE given(i) = front(i)
    OBVIOUS
  <2>2. Patched(s, P, [p \in P |-> p.output])
          = FlattenSeq([i \in 1..Len(s) |-> given(i) \o back(i)])
    BY DEF Patched
  <2>3. [i \in 1..Len(s) |-> given(i) \o back(i)] = piece
    <3> HIDE DEF given, front, back
    <3> QED BY <2>1
  <2> QED BY <2>2, <2>3, Zenon
<1>5. Patched(Keys(s), P, [p \in P |-> Keys(p.output)])
        = FlattenSeq([i \in 1..Len(s) |-> frontKeys(i) \o backKeys(i)])
  <2> DEFINE given(i) == IF \E p \in P : p.first = i
                         THEN [p \in P |-> Keys(p.output)][first(i)] ELSE <<>>
  <2>1. ASSUME NEW i \in 1..Len(s) PROVE given(i) = frontKeys(i)
    OBVIOUS
  <2>2. Len(Keys(s)) = Len(s)
    BY KeysShape
  <2>3. Patched(Keys(s), P, [p \in P |-> Keys(p.output)])
          = FlattenSeq([i \in 1..Len(s) |-> given(i) \o backKeys(i)])
    BY <2>2 DEF Patched
  <2>4. [i \in 1..Len(s) |-> given(i) \o backKeys(i)]
          = [i \in 1..Len(s) |-> frontKeys(i) \o backKeys(i)]
    <3> HIDE DEF given, frontKeys, backKeys
    <3> QED BY <2>1
  <2> QED BY <2>3, <2>4, Zenon
<1> HIDE DEF piece, frontKeys, backKeys
<1>6. /\ FlattenSeq(piece) \in Seq(Ops)
      /\ Keys(FlattenSeq(piece)) = FlattenSeq([i \in 1..Len(s) |-> Keys(piece[i])])
  <2>1. Len(s) \in Nat
    OBVIOUS
  <2> QED BY <1>2, <2>1, KeysFlatten
<1>7. [i \in 1..Len(s) |-> Keys(piece[i])] = [i \in 1..Len(s) |-> frontKeys(i) \o backKeys(i)]
  BY <1>3
<1> QED BY <1>4, <1>5, <1>6, <1>7, Zenon

-----------------------------------------------------------------------------
(* Edit scripts: replacements in order, with gaps around them *)

(* Where the gap behind the first i replacements begins and ends. *)
GapFrom(es, i) == IF i = 0 THEN 1 ELSE es[i].to
GapTo(es, i, len) == IF i = Len(es) THEN len ELSE es[i + 1].from - 1

LEMMA ScriptShape ==
    ASSUME NEW c \in Seq(Ops), NEW es \in Scripts(c)
    PROVE  /\ Len(es) \in Nat
           /\ \A i \in 1..Len(es) :
                /\ es[i].from \in 1..(Len(c) + 1)
                /\ es[i].to \in 1..(Len(c) + 1)
                /\ es[i].from <= es[i].to
                /\ es[i].ops \in Seq(Ops)
           /\ \A i \in 1..(Len(es) - 1) : es[i].to <= es[i + 1].from
<1>1. PICK m \in 0..MaxEdits : es \in [1..m -> Replacements(c)]
  BY DEF Scripts, BoundedSeq, SeqOf
<1>2. Len(es) = m /\ m \in Nat
  BY <1>1, Widths
<1>3. ASSUME NEW i \in 1..m
      PROVE  /\ es[i].from \in 1..(Len(c) + 1)
             /\ es[i].to \in 1..(Len(c) + 1)
             /\ es[i].from <= es[i].to
             /\ es[i].ops \in Seq(Ops)
  <2>1. es[i] \in Replacements(c)
    BY <1>1
  <2>2. es[i].ops \in BoundedSeq(Ops, MaxInserted)
    BY <2>1 DEF Replacements
  <2>3. PICK k \in 0..MaxInserted : es[i].ops \in [1..k -> Ops]
    BY <2>2 DEF BoundedSeq, SeqOf
  <2>4. es[i].ops \in Seq(Ops)
    BY <2>3
  <2> QED BY <2>1, <2>4 DEF Replacements
<1> QED BY <1>2, <1>3 DEF Scripts

LEMMA GapShape ==
    ASSUME NEW c \in Seq(Ops), NEW es \in Scripts(c), NEW i \in 0..Len(es)
    PROVE  /\ GapFrom(es, i) \in 1..(Len(c) + 1)
           /\ GapTo(es, i, Len(c)) \in 0..Len(c)
           /\ GapFrom(es, i) <= GapTo(es, i, Len(c)) + 1
<1>1. Len(c) \in Nat
  OBVIOUS
<1>2. CASE i = 0
  BY <1>1, <1>2, ScriptShape DEF GapFrom, GapTo
<1>3. CASE i # 0
  <2>1. i \in 1..Len(es) /\ (i # Len(es) => i \in 1..(Len(es) - 1) /\ i + 1 \in 1..Len(es))
    BY <1>3, ScriptShape
  <2>2. es[i].to \in 1..(Len(c) + 1)
    BY <2>1, ScriptShape
  <2>3. CASE i = Len(es)
    BY <1>1, <1>3, <2>2, <2>3 DEF GapFrom, GapTo
  <2>4. CASE i # Len(es)
    <3>1. es[i].to <= es[i + 1].from /\ es[i + 1].from \in 1..(Len(c) + 1)
      BY <2>1, <2>4, ScriptShape
    <3> QED BY <1>1, <1>3, <2>2, <2>4, <3>1 DEF GapFrom, GapTo
  <2> QED BY <2>3, <2>4
<1> QED BY <1>2, <1>3

(* A gap is a part of the sequence. *)
LEMMA GapOf ==
    ASSUME NEW c \in Seq(Ops), NEW es \in Scripts(c), NEW i \in 0..Len(es),
           NEW T, NEW s \in Seq(T), Len(s) = Len(c)
    PROVE  /\ Gap(s, es, i) \in Seq(T)
           /\ Len(Gap(s, es, i)) = GapTo(es, i, Len(c)) - GapFrom(es, i) + 1
           /\ \A n \in 1..Len(Gap(s, es, i)) : Gap(s, es, i)[n] = s[GapFrom(es, i) + n - 1]
<1> DEFINE lo == GapFrom(es, i)
           hi == GapTo(es, i, Len(c))
<1>1. lo \in 1..(Len(c) + 1) /\ hi \in 0..Len(c) /\ lo <= hi + 1 /\ Len(c) \in Nat
  BY GapShape
<1>2. Gap(s, es, i) = SubSeq(s, lo, hi)
  BY DEF Gap, GapFrom, GapTo
<1> HIDE DEF lo, hi
<1>3. \A n \in lo..hi : s[n] \in T
  BY <1>1
<1>4. /\ SubSeq(s, lo, hi) \in Seq(T)
      /\ Len(SubSeq(s, lo, hi)) = IF lo <= hi THEN hi - lo + 1 ELSE 0
      /\ \A n \in 1..(hi - lo + 1) : SubSeq(s, lo, hi)[n] = s[lo + n - 1]
  <2>1. lo \in Int /\ hi \in Int
    BY <1>1
  <2> QED BY <1>3, <2>1, SubSeqProperties
<1>5. Len(SubSeq(s, lo, hi)) = hi - lo + 1
  BY <1>1, <1>4
<1> QED BY <1>2, <1>4, <1>5 DEF lo, hi

LEMMA RenamedShape ==
    ASSUME NEW s \in Seq(Ops), NEW name \in Renamings
    PROVE  /\ Renamed(s, name) \in Seq(Ops) /\ Len(Renamed(s, name)) = Len(s)
           /\ \A n \in 1..Len(s) : /\ Renamed(s, name)[n].gate = s[n].gate
                                   /\ Renamed(s, name)[n].qubit = name[s[n].qubit]
<1> DEFINE len == Len(s)
<1>1. len \in Nat /\ \A n \in 1..len : s[n] \in Ops
  OBVIOUS
<1>2. name \in [Qubits -> Qubits]
  BY DEF Renamings
<1>3. ASSUME NEW n \in 1..len
      PROVE  /\ [s[n] EXCEPT !.qubit = name[@]] \in Ops
             /\ [s[n] EXCEPT !.qubit = name[@]].gate = s[n].gate
             /\ [s[n] EXCEPT !.qubit = name[@]].qubit = name[s[n].qubit]
  BY <1>1, <1>2 DEF Ops
<1>4. Renamed(s, name) = [n \in 1..len |-> [s[n] EXCEPT !.qubit = name[@]]]
  BY DEF Renamed
<1> HIDE DEF len
<1>5. /\ Renamed(s, name) \in Seq(Ops) /\ Len(Renamed(s, name)) = len
      /\ \A n \in 1..len : Renamed(s, name)[n] = [s[n] EXCEPT !.qubit = name[@]]
  BY <1>1, <1>3, <1>4
<1> QED BY <1>3, <1>5 DEF len

(* Renaming qubits leaves the keys alone. *)
LEMMA GapKeys ==
    ASSUME NEW c \in Seq(Ops), NEW es \in Scripts(c), NEW i \in 0..Len(es), NEW name \in Renamings
    PROVE  /\ Renamed(Gap(c, es, i), name) \in Seq(Ops)
           /\ Keys(Renamed(Gap(c, es, i), name)) = Gap(Keys(c), es, i)
<1> DEFINE g == Gap(c, es, i)
           r == Renamed(g, name)
           k == Gap(Keys(c), es, i)
           lo == GapFrom(es, i)
<1>1. /\ g \in Seq(Ops) /\ Len(g) = GapTo(es, i, Len(c)) - lo + 1
      /\ \A n \in 1..Len(g) : g[n] = c[lo + n - 1]
  BY GapOf
<1>2. /\ k \in Seq(Gates) /\ Len(k) = GapTo(es, i, Len(c)) - lo + 1
      /\ \A n \in 1..Len(k) : k[n] = Keys(c)[lo + n - 1]
  BY GapOf, KeysShape
<1> HIDE DEF g, k
<1>3. r \in Seq(Ops) /\ Len(r) = Len(g) /\ \A n \in 1..Len(g) : r[n].gate = g[n].gate
  BY <1>1, RenamedShape
<1> HIDE DEF r
<1>4. Keys(r) \in Seq(Gates) /\ Len(Keys(r)) = Len(r) /\ \A n \in 1..Len(r) : Keys(r)[n] = r[n].gate
  BY <1>3, KeysShape
<1>5. ASSUME NEW n \in 1..Len(g) PROVE Keys(r)[n] = k[n]
  <2>1. lo + n - 1 \in 1..Len(c)
    BY <1>1, GapShape
  <2>2. Keys(c)[lo + n - 1] = c[lo + n - 1].gate
    BY <2>1, KeysShape
  <2>3. n \in 1..Len(r) /\ n \in 1..Len(k)
    BY <1>1, <1>2, <1>3
  <2>4. Keys(r)[n] = c[lo + n - 1].gate
    BY <1>1, <1>3, <1>4, <2>3
  <2>5. k[n] = Keys(c)[lo + n - 1]
    BY <1>2, <2>3
  <2> QED BY <2>2, <2>4, <2>5
<1>6. Keys(r) = k
  <2>1. Len(Keys(r)) = Len(k) /\ \A n \in 1..Len(Keys(r)) : Keys(r)[n] = k[n]
    BY <1>1, <1>2, <1>3, <1>4, <1>5
  <2> QED BY <1>2, <1>4, <2>1, SeqEqual
<1> QED BY <1>3, <1>6 DEF g, r, k

(* Splicing the keys gives the keys of the spliced circuit. *)
LEMMA SplicedKeys ==
    ASSUME NEW c \in Seq(Ops), NEW es \in Scripts(c), NEW names \in [0..Len(es) -> Renamings]
    PROVE  /\ After(c, es, names) \in Seq(Ops)
           /\ Keys(After(c, es, names)) = Respliced(Keys(c), es)
<1> DEFINE n == Len(es)
           gap(i) == Renamed(Gap(c, es, i), names[i])
           piece == [i \in 1..n |-> es[i].ops \o gap(i)]
           part == [i \in 1..n |-> Keys(es[i].ops) \o Gap(Keys(c), es, i)]
<1>1. n \in Nat /\ \A i \in 1..n : es[i].ops \in Seq(Ops)
  BY ScriptShape
<1>2. ASSUME NEW i \in 0..n PROVE gap(i) \in Seq(Ops) /\ Keys(gap(i)) = Gap(Keys(c), es, i)
  <2>1. names[i] \in Renamings
    OBVIOUS
  <2> QED BY <2>1, GapKeys
<1>3. /\ After(c, es, names) = gap(0) \o FlattenSeq(piece)
      /\ Respliced(Keys(c), es) = Gap(Keys(c), es, 0) \o FlattenSeq(part)
  BY DEF After, Respliced
<1> HIDE DEF gap, n
<1>4. piece \in [1..n -> Seq(Ops)] /\ \A i \in 1..n : Keys(piece[i]) = part[i]
  <2>1. ASSUME NEW i \in 1..n
        PROVE  /\ es[i].ops \o gap(i) \in Seq(Ops)
               /\ Keys(es[i].ops \o gap(i)) = part[i]
    <3>1. es[i].ops \in Seq(Ops) /\ gap(i) \in Seq(Ops) /\ Keys(gap(i)) = Gap(Keys(c), es, i)
      BY <1>1, <1>2
    <3>2. Keys(es[i].ops \o gap(i)) = Keys(es[i].ops) \o Keys(gap(i))
      BY <3>1, KeysConcat
    <3>3. es[i].ops \o gap(i) \in Seq(Ops)
      BY <3>1, ConcatProperties
    <3> QED BY <3>1, <3>2, <3>3
  <2> HIDE DEF part
  <2> QED BY <2>1
<1>5. [i \in 1..n |-> Keys(piece[i])] = part
  BY <1>4
<1> HIDE DEF piece, part
<1>6. FlattenSeq(piece) \in Seq(Ops) /\ Keys(FlattenSeq(piece)) = FlattenSeq(part)
  <2>1. /\ FlattenSeq(piece) \in Seq(Ops)
        /\ Keys(FlattenSeq(piece)) = FlattenSeq([i \in 1..n |-> Keys(piece[i])])
    BY <1>1, <1>4, KeysFlatten
  <2> QED BY <1>5, <2>1, Zenon
<1>7. 0 \in 0..n
  BY <1>1
<1>8. /\ gap(0) \o FlattenSeq(piece) \in Seq(Ops)
      /\ Keys(gap(0) \o FlattenSeq(piece)) = Gap(Keys(c), es, 0) \o FlattenSeq(part)
  <2>1. gap(0) \in Seq(Ops) /\ Keys(gap(0)) = Gap(Keys(c), es, 0)
    BY <1>2, <1>7
  <2>2. Keys(gap(0) \o FlattenSeq(piece)) = Keys(gap(0)) \o Keys(FlattenSeq(piece))
    BY <1>6, <2>1, KeysConcat
  <2>3. gap(0) \o FlattenSeq(piece) \in Seq(Ops)
    BY <1>6, <2>1, ConcatProperties
  <2> QED BY <1>6, <2>1, <2>2, <2>3, Zenon
<1> QED BY <1>3, <1>8, Zenon

-----------------------------------------------------------------------------
(* Counting gates *)

(* Where a circuit has a gate, and how often. *)
At(c, g) == {n \in 1..Len(c) : c[n].gate = g}
Count(c, g) == Cardinality(At(c, g))

LEMMA CountConcat ==
    ASSUME NEW c \in Seq(Ops), NEW d \in Seq(Ops), NEW g
    PROVE  /\ Count(c \o d, g) = Count(c, g) + Count(d, g)
           /\ Count(c, g) \in Nat /\ Count(d, g) \in Nat
<1> DEFINE e == c \o d
           B == {n + Len(c) : n \in At(d, g)}
<1>1. /\ Len(c) \in Nat /\ Len(d) \in Nat /\ Len(e) = Len(c) + Len(d)
      /\ \A i \in 1..(Len(c) + Len(d)) : e[i] = IF i <= Len(c) THEN c[i] ELSE d[i - Len(c)]
  BY ConcatProperties
<1> HIDE DEF e
<1>2. At(e, g) = At(c, g) \cup B
  <2>1. ASSUME NEW n \in At(e, g) PROVE n \in At(c, g) \cup B
    <3>1. n \in 1..(Len(c) + Len(d)) /\ e[n].gate = g
      BY <1>1 DEF At
    <3>2. CASE n <= Len(c)
      BY <1>1, <3>1, <3>2 DEF At
    <3>3. CASE ~ (n <= Len(c))
      <4>1. n - Len(c) \in 1..Len(d) /\ d[n - Len(c)].gate = g
        BY <1>1, <3>1, <3>3
      <4>2. n - Len(c) \in At(d, g) /\ n = (n - Len(c)) + Len(c)
        BY <1>1, <3>1, <4>1 DEF At
      <4> QED BY <4>2
    <3> QED BY <3>2, <3>3
  <2>2. ASSUME NEW n \in At(c, g) PROVE n \in At(e, g)
    BY <1>1 DEF At
  <2>3. ASSUME NEW n \in At(d, g) PROVE n + Len(c) \in At(e, g)
    <3>1. n \in 1..Len(d) /\ d[n].gate = g
      BY DEF At
    <3>2. n + Len(c) \in 1..(Len(c) + Len(d)) /\ ~ (n + Len(c) <= Len(c)) /\ (n + Len(c)) - Len(c) = n
      BY <1>1, <3>1
    <3>3. e[n + Len(c)] = d[n]
      BY <1>1, <3>2
    <3> QED BY <1>1, <3>1, <3>2, <3>3 DEF At
  <2> QED BY <2>1, <2>2, <2>3
<1>3. At(c, g) \cap B = {}
  BY <1>1 DEF At
<1>4. IsFiniteSet(At(e, g))
  <2>1. IsFiniteSet(1..Len(e))
    BY <1>1, FS_Interval
  <2> QED BY <2>1, FS_Subset DEF At
<1>5. IsFiniteSet(At(d, g)) /\ At(d, g) \in SUBSET Int
  <2>1. IsFiniteSet(1..Len(d))
    BY <1>1, FS_Interval
  <2> QED BY <2>1, FS_Subset DEF At
<1>6. Cardinality(B) = Cardinality(At(d, g))
  <2> DEFINE k == Len(c)
  <2>1. B = {n + k : n \in At(d, g)} /\ k \in Int
    BY <1>1
  <2> HIDE DEF B, k
  <2> QED BY <1>5, <2>1, ShiftedSize
<1> HIDE DEF B
<1>7. /\ Cardinality(At(e, g)) = Cardinality(At(c, g)) + Cardinality(B)
      /\ Cardinality(At(c, g)) \in Nat /\ Cardinality(B) \in Nat
  <2> DEFINE S == At(e, g)
             A == At(c, g)
  <2>1. IsFiniteSet(S) /\ S = A \cup B /\ A \cap B = {}
    BY <1>2, <1>3, <1>4
  <2> HIDE DEF S, A
  <2>2. IsFiniteSet(A) /\ IsFiniteSet(B)
    <3>1. A \in SUBSET S /\ B \in SUBSET S
      BY <2>1
    <3> QED BY <2>1, <3>1, FS_Subset
  <2>3. Cardinality(A \cup B) = Cardinality(A) + Cardinality(B) - Cardinality(A \cap B)
    BY <2>2, FS_Union
  <2>4. /\ Cardinality(A) \in Nat /\ Cardinality(B) \in Nat
        /\ Cardinality(A \cap B) = 0
    BY <2>1, <2>2, FS_CardinalityType, FS_EmptySet
  <2>5. Cardinality(S) = Cardinality(A) + Cardinality(B)
    BY <2>1, <2>3, <2>4
  <2> QED BY <2>4, <2>5 DEF S, A
<1>8. /\ Count(e, g) = Count(c, g) + Count(d, g)
      /\ Count(c, g) \in Nat /\ Count(d, g) \in Nat
  BY <1>6, <1>7 DEF Count
<1> QED BY <1>8 DEF e

(* Replacements are in order, not only each with the next. *)
LEMMA ScriptOrder ==
    ASSUME NEW c \in Seq(Ops), NEW es \in Scripts(c),
           NEW j \in 1..Len(es), NEW i \in 1..(j - 1)
    PROVE  es[i].to <= es[j].from
<1> DEFINE S == {k \in 0..Len(es) : \A h \in 1..(k - 1) : es[h].to <= es[k].from}
<1>1. 0 \in S
  BY ScriptShape
<1>2. ASSUME NEW k \in 1..Len(es), k - 1 \in S PROVE k \in S
  <2>1. SUFFICES ASSUME NEW h \in 1..(k - 1) PROVE es[h].to <= es[k].from
    BY ScriptShape
  <2>2. Len(es) \in Nat /\ k - 1 \in 1..(Len(es) - 1) /\ (k - 1) + 1 = k
    BY ScriptShape
  <2>3. es[k - 1].to <= es[k].from
    BY <2>2, ScriptShape
  <2>4. CASE h = k - 1
    BY <2>3, <2>4
  <2>5. CASE h # k - 1
    <3>1. h \in 1..((k - 1) - 1)
      BY <2>2, <2>5
    <3>2. es[h].to <= es[k - 1].from
      BY <1>2, <3>1
    <3>3. h \in 1..Len(es) /\ k - 1 \in 1..Len(es)
      BY <2>2
    <3>4. es[k - 1].from <= es[k - 1].to /\ es[h].to \in Int /\ es[k].from \in Int
          /\ es[k - 1].from \in Int /\ es[k - 1].to \in Int
      BY <3>3, ScriptShape
    <3> QED BY <2>3, <3>2, <3>4
  <2> QED BY <2>4, <2>5
<1> HIDE DEF S
<1>3. Len(es) \in Nat /\ \A k \in 1..Len(es) : k - 1 \in S => k \in S
  BY <1>2, ScriptShape
<1>4. \A k \in 0..Len(es) : k \in S
  BY <1>1, <1>3, CountUp
<1>5. j \in S
  BY <1>3, <1>4
<1> QED BY <1>5 DEF S

(* No replacement covers a position of a gap. *)
LEMMA GapsClean ==
    ASSUME NEW c \in Seq(Ops), NEW es \in Scripts(c), NEW i \in 0..Len(es),
           NEW n \in GapFrom(es, i)..GapTo(es, i, Len(c)), NEW j \in 1..Len(es)
    PROVE  /\ n \notin es[j].from..(es[j].to - 1)
           /\ es[j].to <= n <=> j <= i
<1>1. /\ Len(es) \in Nat /\ Len(c) \in Nat
      /\ es[j].from \in Int /\ es[j].to \in Int /\ es[j].from <= es[j].to
      /\ es[j].from <= Len(c) + 1
      /\ GapFrom(es, i) \in Int /\ GapTo(es, i, Len(c)) \in Int /\ n \in Int
      /\ GapFrom(es, i) <= n /\ n <= GapTo(es, i, Len(c))
  BY ScriptShape, GapShape
<1>2. CASE j <= i
  <2>1. i # 0 /\ i \in 1..Len(es) /\ GapFrom(es, i) = es[i].to
    BY <1>1, <1>2 DEF GapFrom
  <2>2. es[j].to <= es[i].to
    <3>1. CASE j = i
      BY <1>1, <3>1
    <3>2. CASE j # i
      <4>1. j \in 1..(i - 1)
        BY <1>1, <1>2, <3>2
      <4>2. es[j].to <= es[i].from
        BY <2>1, <4>1, ScriptOrder
      <4>3. es[i].from <= es[i].to /\ es[i].from \in Int /\ es[i].to \in Int
        BY <2>1, ScriptShape
      <4> QED BY <1>1, <4>2, <4>3
    <3> QED BY <3>1, <3>2
  <2>3. es[i].to \in Int
    BY <2>1, ScriptShape
  <2> QED BY <1>1, <1>2, <2>1, <2>2, <2>3
<1>3. CASE ~ (j <= i)
  <2>1. i # Len(es) /\ i + 1 \in 1..Len(es) /\ GapTo(es, i, Len(c)) = es[i + 1].from - 1
    BY <1>1, <1>3 DEF GapTo
  <2>2. es[i + 1].from <= es[j].from /\ es[i + 1].from \in Int
    <3>1. es[i + 1].from \in Int /\ es[i + 1].to \in Int /\ es[i + 1].from <= es[i + 1].to
      BY <2>1, ScriptShape
    <3>2. CASE j = i + 1
      BY <1>1, <3>1, <3>2
    <3>3. CASE j # i + 1
      <4>1. i + 1 \in 1..(j - 1)
        BY <1>1, <1>3, <3>3
      <4>2. es[i + 1].to <= es[j].from
        BY <4>1, ScriptOrder
      <4> QED BY <1>1, <3>1, <4>2
    <3> QED BY <3>2, <3>3
  <2>3. n < es[j].from
    BY <1>1, <2>1, <2>2
  <2> QED BY <1>1, <1>3, <2>3
<1> QED BY <1>2, <1>3

(* Joining a and b before d, or b and d before a, is the same ... *)
Associates(a, b, d) == (a \o b) \o d = a \o (b \o d)

(* ... for sequences of operations. *)
LEMMA ConcatAssociates ==
    ASSUME NEW a \in Seq(Ops), NEW b \in Seq(Ops), NEW d \in Seq(Ops)
    PROVE  Associates(a, b, d)
<1>1. (a \o b) \o d = a \o (b \o d)
  BY ConcatAssociative
<1> QED BY <1>1 DEF Associates

(* The script applied replacement by replacement. *)
Grows(F, c, es, names) ==
    /\ F \in [0..Len(es) -> Seq(Ops)]
    /\ F[0] = Renamed(Gap(c, es, 0), names[0])
    /\ \A j \in 1..Len(es) :
        F[j] = F[j - 1] \o (es[j].ops \o Renamed(Gap(c, es, j), names[j]))
    /\ F[Len(es)] = After(c, es, names)

LEMMA AfterGrows ==
    ASSUME NEW c \in Seq(Ops), NEW es \in Scripts(c), NEW names \in [0..Len(es) -> Renamings]
    PROVE  \E F : Grows(F, c, es, names)
<1> DEFINE n == Len(es)
           gap(i) == Renamed(Gap(c, es, i), names[i])
           piece == [i \in 1..n |-> es[i].ops \o gap(i)]
<1>1. n \in Nat /\ \A i \in 1..n : es[i].ops \in Seq(Ops)
  BY ScriptShape
<1>2. ASSUME NEW i \in 0..n PROVE gap(i) \in Seq(Ops)
  <2>1. names[i] \in Renamings
    OBVIOUS
  <2> QED BY <2>1, GapKeys
<1>3. After(c, es, names) = gap(0) \o FlattenSeq(piece)
  BY DEF After
<1> HIDE DEF gap, n
<1>4. piece \in [1..n -> Seq(Ops)]
  <2>1. \A i \in 1..n : es[i].ops \o gap(i) \in Seq(Ops)
    BY <1>1, <1>2, ConcatProperties
  <2> QED BY <2>1
<1>5. \A i \in 1..n : piece[i] = es[i].ops \o gap(i)
  OBVIOUS
<1> HIDE DEF piece
<1>6. PICK f \in [0..n -> Seq(Ops)] : Joins(f, piece, n)
  BY <1>1, <1>4, JoinsExists
<1>7. FlattenSeq(piece) = f[n]
  BY <1>1, <1>4, <1>6, FlattenJoins
<1> DEFINE F == [j \in 0..n |-> gap(0) \o f[j]]
<1>8. gap(0) \in Seq(Ops)
  BY <1>1, <1>2
<1>9. F \in [0..n -> Seq(Ops)]
  <2>1. \A j \in 0..n : gap(0) \o f[j] \in Seq(Ops)
    BY <1>6, <1>8, ConcatProperties
  <2> QED BY <2>1
<1>10. F[0] = gap(0)
  <2>1. f[0] = <<>>
    BY <1>6 DEF Joins
  <2>a. F[0] = gap(0) \o f[0]
    BY <1>1
  <2>2. gap(0) \o <<>> = gap(0)
    BY <1>8, ConcatEmptySeq
  <2> QED BY <2>1, <2>a, <2>2, Zenon
<1>11. ASSUME NEW j \in 1..n PROVE F[j] = F[j - 1] \o piece[j]
  <2>1. f[j] = f[j - 1] \o piece[j]
    BY <1>6 DEF Joins
  <2>a. j \in 0..n /\ j - 1 \in 0..n
    BY <1>1
  <2>2. gap(0) \o (f[j - 1] \o piece[j]) = (gap(0) \o f[j - 1]) \o piece[j]
    <3>1. f[j - 1] \in Seq(Ops) /\ piece[j] \in Seq(Ops)
      BY <1>4, <2>a
    <3> DEFINE a == gap(0)
               b == f[j - 1]
               d == piece[j]
    <3>2. a \in Seq(Ops) /\ b \in Seq(Ops) /\ d \in Seq(Ops)
      BY <1>8, <3>1
    <3> HIDE DEF a, b, d
    <3>3. Associates(a, b, d)
      BY <3>2, ConcatAssociates
    <3> QED BY <3>3 DEF Associates, a, b, d
  <2>3. F[j] = gap(0) \o f[j] /\ F[j - 1] = gap(0) \o f[j - 1]
    BY <2>a
  <2> QED BY <2>1, <2>2, <2>3, Zenon
<1>12. F[n] = gap(0) \o f[n]
  BY <1>1
<1> HIDE DEF F
<1>13. F[n] = After(c, es, names)
  BY <1>3, <1>7, <1>12, Zenon
<1>14. \A j \in 1..n : F[j] = F[j - 1] \o (es[j].ops \o gap(j))
  BY <1>5, <1>11
<1> QED BY <1>9, <1>10, <1>13, <1>14 DEF Grows, gap, n

(* Gates of a gap; and of the circuit up to there, without replaced ones. *)
InGap(c, es, j, g) == {n \in GapFrom(es, j)..GapTo(es, j, Len(c)) : c[n].gate = g}
Kept(c, es, j, g) ==
    {n \in 1..GapTo(es, j, Len(c)) :
        /\ c[n].gate = g
        /\ \A i \in 1..Len(es) : n \notin es[i].from..(es[i].to - 1)}

LEMMA CountGap ==
    ASSUME NEW c \in Seq(Ops), NEW es \in Scripts(c), NEW j \in 0..Len(es),
           NEW name \in Renamings, NEW g
    PROVE  Count(Renamed(Gap(c, es, j), name), g) = Cardinality(InGap(c, es, j, g))
<1> DEFINE s == Gap(c, es, j)
           r == Renamed(s, name)
           lo == GapFrom(es, j)
           hi == GapTo(es, j, Len(c))
           k == lo - 1
<1>1. lo \in 1..(Len(c) + 1) /\ hi \in 0..Len(c) /\ lo <= hi + 1 /\ Len(c) \in Nat
  BY GapShape
<1>2. s \in Seq(Ops) /\ Len(s) = hi - lo + 1 /\ \A n \in 1..Len(s) : s[n] = c[lo + n - 1]
  BY GapOf
<1> HIDE DEF s
<1>3. r \in Seq(Ops) /\ Len(r) = Len(s) /\ \A n \in 1..Len(s) : r[n].gate = s[n].gate
  BY <1>2, RenamedShape
<1> HIDE DEF r, lo, hi
<1>4. At(r, g) \in SUBSET Int /\ IsFiniteSet(At(r, g))
  <2>1. IsFiniteSet(1..Len(r))
    BY <1>1, <1>2, <1>3, FS_Interval
  <2> QED BY <2>1, FS_Subset DEF At
<1>5. InGap(c, es, j, g) = {n + k : n \in At(r, g)}
  <2>1. ASSUME NEW n \in InGap(c, es, j, g) PROVE n - k \in At(r, g) /\ n = (n - k) + k
    <3>1. n \in lo..hi /\ c[n].gate = g
      BY DEF InGap, lo, hi
    <3>2. n - k \in 1..Len(s) /\ lo + (n - k) - 1 = n /\ n = (n - k) + k
      BY <1>1, <1>2, <3>1
    <3> QED BY <1>2, <1>3, <3>1, <3>2 DEF At
  <2>2. ASSUME NEW n \in At(r, g) PROVE n + k \in InGap(c, es, j, g)
    <3>1. n \in 1..Len(s) /\ r[n].gate = g
      BY <1>3 DEF At
    <3>2. n + k \in lo..hi /\ lo + n - 1 = n + k
      BY <1>1, <1>2, <3>1
    <3>3. c[n + k].gate = g
      BY <1>2, <1>3, <3>1, <3>2
    <3> QED BY <3>2, <3>3 DEF InGap, lo, hi
  <2> QED BY <2>1, <2>2
<1>6. k \in Int
  BY <1>1
<1> HIDE DEF k
<1>7. Cardinality(InGap(c, es, j, g)) = Cardinality(At(r, g))
  <2> DEFINE A == At(r, g)
             B == InGap(c, es, j, g)
  <2>1. A \in SUBSET Int /\ IsFiniteSet(A) /\ B = {n + k : n \in A}
    BY <1>4, <1>5
  <2> HIDE DEF A, B
  <2>2. Cardinality(B) = Cardinality(A)
    BY <1>6, <2>1, ShiftedSize
  <2> QED BY <2>2 DEF A, B
<1> QED BY <1>7 DEF Count, r, s

LEMMA KeptGrows ==
    ASSUME NEW c \in Seq(Ops), NEW es \in Scripts(c), NEW j \in 1..Len(es), NEW g
    PROVE  Cardinality(Kept(c, es, j, g))
             = Cardinality(Kept(c, es, j - 1, g)) + Cardinality(InGap(c, es, j, g))
<1>1. /\ Len(es) \in Nat /\ Len(c) \in Nat
      /\ j \in 0..Len(es) /\ j - 1 \in 0..Len(es) /\ j # 0 /\ j - 1 # Len(es)
  BY ScriptShape
<1>2. /\ GapTo(es, j, Len(c)) \in 0..Len(c)
      /\ GapFrom(es, j) = es[j].to /\ es[j].to \in Nat /\ es[j].to >= 1
      /\ GapTo(es, j - 1, Len(c)) = es[j].from - 1 /\ es[j].from \in Nat /\ es[j].from >= 1
      /\ es[j].from <= es[j].to
      /\ es[j].to <= GapTo(es, j, Len(c)) + 1
  <2>1. (j - 1) + 1 = j
    BY <1>1
  <2>2. GapFrom(es, j) <= GapTo(es, j, Len(c)) + 1 /\ GapTo(es, j, Len(c)) \in 0..Len(c)
    BY <1>1, GapShape
  <2> QED BY <1>1, <2>1, <2>2, ScriptShape DEF GapFrom, GapTo
<1>3. Kept(c, es, j, g) = Kept(c, es, j - 1, g) \cup InGap(c, es, j, g)
  <2>1. ASSUME NEW n \in Kept(c, es, j, g), n \notin Kept(c, es, j - 1, g)
        PROVE  n \in InGap(c, es, j, g)
    BY <1>2, <2>1 DEF Kept, InGap
  <2>2. ASSUME NEW n \in Kept(c, es, j - 1, g) PROVE n \in Kept(c, es, j, g)
    <3>1. n \in 1..GapTo(es, j, Len(c))
      <4>1. n \in 1..GapTo(es, j - 1, Len(c))
        BY DEF Kept
      <4> QED BY <1>2, <4>1
    <3> QED BY <3>1 DEF Kept
  <2>3. ASSUME NEW n \in InGap(c, es, j, g) PROVE n \in Kept(c, es, j, g)
    <3>1. n \in GapFrom(es, j)..GapTo(es, j, Len(c)) /\ c[n].gate = g
      BY DEF InGap
    <3>2. \A i \in 1..Len(es) : n \notin es[i].from..(es[i].to - 1)
      BY <1>1, <3>1, GapsClean
    <3> QED BY <1>2, <3>1, <3>2 DEF Kept
  <2> QED BY <2>1, <2>2, <2>3
<1>4. Kept(c, es, j - 1, g) \cap InGap(c, es, j, g) = {}
  BY <1>2 DEF Kept, InGap
<1>5. IsFiniteSet(Kept(c, es, j, g))
  <2>1. IsFiniteSet(1..GapTo(es, j, Len(c)))
    BY <1>2, FS_Interval
  <2> QED BY <2>1, FS_Subset DEF Kept
<1> DEFINE A == Kept(c, es, j - 1, g)
           B == InGap(c, es, j, g)
           S == Kept(c, es, j, g)
<1> HIDE DEF A, B, S
<1>6. S = A \cup B /\ A \cap B = {} /\ IsFiniteSet(S)
  BY <1>3, <1>4, <1>5 DEF A, B, S
<1>7. Cardinality(S) = Cardinality(A) + Cardinality(B)
  BY <1>6, SizeOfParts
<1> QED BY <1>7 DEF A, B, S

LEMMA KeptFirst ==
    ASSUME NEW c \in Seq(Ops), NEW es \in Scripts(c), NEW g
    PROVE  Kept(c, es, 0, g) = InGap(c, es, 0, g)
<1>1. 0 \in 0..Len(es) /\ GapFrom(es, 0) = 1
  BY ScriptShape DEF GapFrom
<1>2. \A n \in 1..GapTo(es, 0, Len(c)), i \in 1..Len(es) : n \notin es[i].from..(es[i].to - 1)
  BY <1>1, GapsClean
<1> QED BY <1>1, <1>2 DEF Kept, InGap

(* What the script leaves of a gate and what it inserts. *)
LEMMA CountAfter ==
    ASSUME NEW c \in Seq(Ops), NEW es \in Scripts(c), NEW names \in [0..Len(es) -> Renamings],
           NEW g, NEW w, \A i \in 1..Len(es) : w[i] = Count(es[i].ops, g)
    PROVE  /\ Count(After(c, es, names), g)
                = Cardinality(Kept(c, es, Len(es), g)) + SumFunctionOnSet(w, 1..Len(es))
           /\ SumFunctionOnSet(w, 1..Len(es)) \in Nat
<1> DEFINE n == Len(es)
           total(j) == SumFunctionOnSet(w, 1..j)
           gap(j) == Renamed(Gap(c, es, j), names[j])
<1>1. n \in Nat /\ \A i \in 1..n : es[i].ops \in Seq(Ops)
  BY ScriptShape
<1>2. \A i \in 1..n : w[i] \in Nat
  <2>1. \A i \in 1..n : Count(es[i].ops, g) \in Nat
    BY <1>1, CountConcat
  <2> QED BY <2>1
<1>3. ASSUME NEW j \in 0..n PROVE total(j) \in Nat
  <2>1. IsFiniteSet(1..j) /\ \A i \in 1..j : w[i] \in Nat
    BY <1>1, <1>2, FS_Interval
  <2> QED BY <2>1, SumIsNatural
<1>4. ASSUME NEW j \in 1..n PROVE total(j) = total(j - 1) + w[j]
  <2>1. j \in Nat \ {0} /\ \A i \in 1..j : w[i] \in Int
    BY <1>1, <1>2
  <2> QED BY <2>1, SumUpTo
<1>5. total(0) = 0
  <2>1. 1..0 = {}
    OBVIOUS
  <2>2. SumFunctionOnSet(w, {}) = 0
    BY SumEmpty
  <2> QED BY <2>1, <2>2, Zenon
<1>6. ASSUME NEW j \in 0..n
      PROVE  gap(j) \in Seq(Ops) /\ Count(gap(j), g) = Cardinality(InGap(c, es, j, g))
  <2>1. names[j] \in Renamings
    OBVIOUS
  <2> QED BY <2>1, GapKeys, CountGap
<1>7. PICK F : Grows(F, c, es, names)
  BY AfterGrows
<1> HIDE DEF total
<1> DEFINE S == {j \in 0..n : Count(F[j], g) = Cardinality(Kept(c, es, j, g)) + total(j)}
<1>8. 0 \in S
  <2>1. F[0] = gap(0) /\ 0 \in 0..n
    BY <1>1, <1>7 DEF Grows
  <2>2. Count(F[0], g) = Cardinality(Kept(c, es, 0, g))
    BY <1>6, <2>1, KeptFirst
  <2>3. Count(gap(0), g) \in Nat
    BY <1>6, <2>1, CountConcat
  <2> QED BY <1>5, <2>1, <2>2, <2>3
<1>9. ASSUME NEW j \in 1..n, j - 1 \in S PROVE j \in S
  <2>1. /\ F[j] = F[j - 1] \o (es[j].ops \o gap(j))
        /\ F[j - 1] \in Seq(Ops) /\ es[j].ops \in Seq(Ops) /\ gap(j) \in Seq(Ops)
    <3>1. j - 1 \in 0..n /\ j \in 0..n
      BY <1>1
    <3> QED BY <1>1, <1>6, <1>7, <3>1 DEF Grows
  <2> HIDE DEF gap
  <2>2. es[j].ops \o gap(j) \in Seq(Ops)
    BY <2>1, ConcatProperties
  <2>3. /\ Count(es[j].ops \o gap(j), g) = Count(es[j].ops, g) + Count(gap(j), g)
        /\ Count(es[j].ops, g) \in Nat /\ Count(gap(j), g) \in Nat
    BY <2>1, CountConcat
  <2>4. /\ Count(F[j], g) = Count(F[j - 1], g) + Count(es[j].ops \o gap(j), g)
        /\ Count(F[j - 1], g) \in Nat
    <3> DEFINE a == F[j - 1]
               b == es[j].ops \o gap(j)
    <3>1. a \in Seq(Ops) /\ b \in Seq(Ops) /\ F[j] = a \o b
      BY <2>1, <2>2
    <3> HIDE DEF a, b
    <3>2. Count(a \o b, g) = Count(a, g) + Count(b, g) /\ Count(a, g) \in Nat
      BY <3>1, CountConcat
    <3>3. Count(F[j], g) = Count(a, g) + Count(b, g)
      BY <3>1, <3>2, Zenon
    <3> QED BY <3>2, <3>3 DEF a, b
  <2>5. Count(gap(j), g) = Cardinality(InGap(c, es, j, g))
    BY <1>1, <1>6 DEF gap
  <2>6. Cardinality(Kept(c, es, j, g))
          = Cardinality(Kept(c, es, j - 1, g)) + Cardinality(InGap(c, es, j, g))
    BY KeptGrows
  <2>7. Count(F[j - 1], g) = Cardinality(Kept(c, es, j - 1, g)) + total(j - 1)
    BY <1>9
  <2>8. total(j - 1) \in Nat /\ total(j) = total(j - 1) + w[j] /\ w[j] = Count(es[j].ops, g)
    BY <1>1, <1>3, <1>4
  <2>9. Cardinality(Kept(c, es, j - 1, g)) \in Nat
    <3>1. IsFiniteSet(1..GapTo(es, j - 1, Len(c)))
      <4>1. j - 1 \in 0..Len(es) /\ Len(c) \in Nat
        BY <1>1
      <4>2. GapTo(es, j - 1, Len(c)) \in Int
        BY <4>1, GapShape
      <4> QED BY <4>2, FS_Interval
    <3>2. IsFiniteSet(Kept(c, es, j - 1, g))
      BY <3>1, FS_Subset DEF Kept
    <3> QED BY <3>2, FS_CardinalityType
  <2>10. Count(F[j], g) = Cardinality(Kept(c, es, j, g)) + total(j)
    BY <2>3, <2>4, <2>5, <2>6, <2>7, <2>8, <2>9
  <2> QED BY <1>1, <2>10
<1> HIDE DEF S
<1>10. n \in S
  <2>1. \A j \in 0..n : j \in S
    BY <1>1, <1>8, <1>9, CountUp
  <2> QED BY <1>1, <2>1
<1>11. F[n] = After(c, es, names)
  BY <1>7 DEF Grows
<1>12. total(n) \in Nat
  BY <1>1, <1>3
<1> QED BY <1>10, <1>11, <1>12 DEF S, total

(* The counts kept along with the edits are those of the new circuit. *)
LEMMA RecountedCounts ==
    ASSUME NEW c \in Seq(Ops), NEW es \in Scripts(c), NEW names \in [0..Len(es) -> Renamings]
    PROVE  Recounted(Histogram(c), c, es) = Histogram(After(c, es, names))
<1> DEFINE removed(g) == {n \in 1..Len(c) :
                            /\ c[n].gate = g
                            /\ \E i \in 1..Len(es) : n \in es[i].from..(es[i].to - 1)}
           w(g) == [i \in DOMAIN es |-> Cardinality({n \in 1..Len(es[i].ops) : es[i].ops[n].gate = g})]
<1>1. ASSUME NEW g \in Keyed
      PROVE  Count(c, g) - Cardinality(removed(g)) + SumFunction(w(g))
               = Count(After(c, es, names), g)
  <2>1. DOMAIN es = 1..Len(es) /\ Len(es) \in Nat
    <3>1. PICK m \in 0..MaxEdits : es \in [1..m -> Replacements(c)]
      BY DEF Scripts, BoundedSeq, SeqOf
    <3> QED BY <3>1, Widths
  <2>2. \A i \in 1..Len(es) : w(g)[i] = Count(es[i].ops, g)
    BY <2>1 DEF Count, At
  <2>3. SumFunction(w(g)) = SumFunctionOnSet(w(g), 1..Len(es))
    BY <2>1 DEF SumFunction
  <2> HIDE DEF w
  <2>4. /\ Count(After(c, es, names), g)
             = Cardinality(Kept(c, es, Len(es), g)) + SumFunctionOnSet(w(g), 1..Len(es))
        /\ SumFunctionOnSet(w(g), 1..Len(es)) \in Nat
    BY <2>2, CountAfter
  <2>5. GapTo(es, Len(es), Len(c)) = Len(c)
    BY DEF GapTo
  <2>6. /\ At(c, g) = removed(g) \cup Kept(c, es, Len(es), g)
        /\ removed(g) \cap Kept(c, es, Len(es), g) = {}
    BY <2>5 DEF At, Kept
  <2>7. IsFiniteSet(At(c, g))
    <3>1. IsFiniteSet(1..Len(c))
      BY FS_Interval
    <3> QED BY <3>1, FS_Subset DEF At
  <2> DEFINE A == removed(g)
             B == Kept(c, es, Len(es), g)
             S == At(c, g)
  <2> HIDE DEF A, B, S
  <2>8. S = A \cup B /\ A \cap B = {} /\ IsFiniteSet(S)
    BY <2>6, <2>7 DEF A, B, S
  <2>9. /\ Cardinality(S) = Cardinality(A) + Cardinality(B)
        /\ Cardinality(A) \in Nat /\ Cardinality(B) \in Nat
    BY <2>8, SizeOfParts
  <2>10. Count(c, g) - Cardinality(A) + SumFunction(w(g)) = Count(After(c, es, names), g)
    BY <2>3, <2>4, <2>9 DEF Count, B, S
  <2> QED BY <2>10 DEF A
<1>2. /\ Recounted(Histogram(c), c, es) =
           [g \in Keyed |-> Histogram(c)[g] - Cardinality(removed(g)) + SumFunction(w(g))]
      /\ \A g \in Keyed : Histogram(c)[g] = Count(c, g)
      /\ Histogram(After(c, es, names)) = [g \in Keyed |-> Count(After(c, es, names), g)]
  BY DEF Recounted, Histogram, Count, At
<1> HIDE DEF removed, w
<1> QED BY <1>1, <1>2

-----------------------------------------------------------------------------
(* What is remembered of a circuit is about the current one. *)

LEMMA BlocksInside == ASSUME NEW c, NEW B \in Blocks(c) PROVE B \subseteq 1..Len(c) /\ B # {}
BY DEF Blocks

LEMMA ScannedInside ==
    ASSUME NEW c, NEW anchors
    PROVE  Scanned(c, anchors) \subseteq 1..Len(c)
<1>1. ASSUME NEW a \in Scanned(c, anchors) PROVE a \in 1..Len(c)
  <2>1. \E B \in Blocks(c) : a \in B
    BY DEF Scanned
  <2> QED BY <2>1, BlocksInside
<1> QED BY <1>1

(* A candidate starts at one of the anchors and puts out gates of a rule. *)
LEMMA CandidateOutput ==
    ASSUME NEW c \in Seq(Ops), NEW keys, NEW cfg, NEW A \in SUBSET (1..Len(c)),
           NEW p \in Candidates(c, keys, cfg, A)
    PROVE  p.output \in Seq(Ops)
<1>1. PICK a \in A : p \in CandidatesAt(c, keys, cfg, a)
  BY DEF Candidates
<1>2. PICK r \in Active(cfg) :
        p = [first |-> a, last |-> Found(c, keys, cfg, r, a)[Len(r.source)],
             matched |-> Range(Found(c, keys, cfg, r, a)),
             output |-> [i \in 1..Len(r.target) |-> [gate |-> r.target[i], qubit |-> c[a].qubit]]]
  BY <1>1, Zenon DEF CandidatesAt
<1>3. r \in Rules
  BY DEF Active, Considered
<1>4. r.target \in Seq(Keyed)
  BY <1>3, RuleShapes
<1>5. c[a].qubit \in Qubits
  <2>1. c[a] \in Ops
    OBVIOUS
  <2> QED BY <2>1 DEF Ops
<1>6. \A i \in 1..Len(r.target) : [gate |-> r.target[i], qubit |-> c[a].qubit] \in Ops
  BY <1>4, <1>5 DEF Ops, Gates
<1>7. Len(r.target) \in Nat
  BY <1>4
<1> QED BY <1>2, <1>6, <1>7

(* The certificate, and the rewrite being executed, are records of known   *)
(* fields.                                                                 *)
CertShape ==
    cert # None =>
        /\ cert = [x \in DOMAIN cert |-> cert[x]]
        /\ DOMAIN cert = {"revision", "config", "reach", "pending", "histogram", "workspace"}
        /\ cert.revision \in 0..revision
        /\ cert.config \in Configs
        /\ cert.reach = Reach(cert.config)

RunFields ==
    run # Idle =>
        /\ run = [x \in DOMAIN run |-> run[x]]
        /\ DOMAIN run = {"config", "round", "changed", "incremental", "anchors", "keys"}
        /\ run.round \in Nat \ {0}
        /\ run.config \in Configs
        /\ run.changed \in BOOLEAN

WInv ==
    /\ revision \in 0..(Revisions - 1)
    /\ current \in Seq(Ops)
    /\ CertShape
    /\ RunFields
    /\ WorkspaceIsCurrent

(* A record that is replaced by another one of the same fields is one. *)
LEMMA InitWInv == Init => WInv
<1>1. ASSUME Init PROVE current \in Seq(Ops)
  <2>1. PICK m \in 0..MaxLen : current \in [1..m -> Ops]
    BY <1>1 DEF Init, BoundedSeq, SeqOf
  <2>2. m \in Nat
    BY Widths
  <2> QED BY <2>1, <2>2
<1>2. ASSUME Init PROVE cert = None /\ run = Idle /\ revision \in 0..(Revisions - 1)
  BY <1>2, Widths DEF Init
<1> QED BY <1>1, <1>2 DEF WInv, CertShape, RunFields, WorkspaceIsCurrent

(* The certificate that follows an edit. *)
LEMMA EditedIsCurrent ==
    ASSUME WInv, run = Idle, NEW es \in Scripts(current),
           NEW names \in [0..Len(es) -> Renamings], NEW edits,
           NextRevision # 0, current' = After(current, es, names),
           revision' = NextRevision, cert' = Edited(es, edits, current'), run' = run
    PROVE  CertShape' /\ WorkspaceIsCurrent' /\ current' \in Seq(Ops)
<1>1. current \in Seq(Ops) /\ current' \in Seq(Ops)
  BY SplicedKeys DEF WInv
<1>2. CASE cert' = None
  BY <1>1, <1>2 DEF CertShape, WorkspaceIsCurrent
<1>3. CASE cert' # None
  <2>1. /\ cert # None /\ cert.revision = revision
        /\ cert' = [cert EXCEPT
            !.revision = NextRevision,
            !.pending = Mapped(@, es, Len(current), cert.reach),
            !.histogram = Recounted(@, current, es),
            !.workspace = IF @ = None THEN None ELSE Respliced(@, es)]
    BY <1>3 DEF Edited
  <2>2. /\ cert = [x \in DOMAIN cert |-> cert[x]]
        /\ DOMAIN cert = {"revision", "config", "reach", "pending", "histogram", "workspace"}
        /\ cert.config \in Configs /\ cert.reach = Reach(cert.config)
        /\ cert.histogram = Histogram(current)
        /\ cert.workspace # None => cert.workspace = Keys(current)
    BY <2>1 DEF WInv, CertShape, WorkspaceIsCurrent
  <2>3. /\ cert' = [x \in DOMAIN cert' |-> cert'[x]]
        /\ DOMAIN cert' = {"revision", "config", "reach", "pending", "histogram", "workspace"}
        /\ cert'.revision = NextRevision
        /\ cert'.config = cert.config /\ cert'.reach = cert.reach
        /\ cert'.histogram = Recounted(cert.histogram, current, es)
        /\ cert'.workspace = IF cert.workspace = None THEN None ELSE Respliced(cert.workspace, es)
    BY <2>1, <2>2
  <2>4. NextRevision \in 0..revision'
    BY NextRevisionInRange DEF WInv
  <2>5. CertShape'
    BY <2>2, <2>3, <2>4 DEF CertShape
  <2>6. cert'.histogram = Histogram(current')
    BY <1>1, <2>2, <2>3, RecountedCounts
  <2>7. cert'.workspace # None => cert'.workspace = Keys(current')
    BY <1>1, <2>2, <2>3, SplicedKeys
  <2> QED BY <1>1, <2>5, <2>6, <2>7 DEF WorkspaceIsCurrent
<1> QED BY <1>2, <1>3

LEMMA IdentityRenames ==
    ASSUME NEW n PROVE [i \in 0..n |-> Identity] \in [0..n -> Renamings]
BY DEF Renamings, Identity

LEMMA PassCurrent == ASSUME WInv, Pass PROVE WInv'
<1>a. PICK es \in Scripts(current), edits \in Sources :
        \E names \in [0..Len(es) -> Renamings] : Adopt(es, names, edits)
  BY DEF Pass
<1>1. PICK names \in [0..Len(es) -> Renamings] : Adopt(es, names, edits)
  BY <1>a
<1>2. /\ run = Idle /\ run' = run /\ revision' = NextRevision
      /\ current' = After(current, es, names)
      /\ cert' = IF NextRevision = 0 THEN None ELSE Edited(es, edits, current')
  BY <1>1 DEF Pass, Adopt
<1>3. revision' \in 0..(Revisions - 1)
  BY <1>2, NextRevisionInRange DEF WInv
<1>4. CertShape' /\ WorkspaceIsCurrent' /\ current' \in Seq(Ops)
  <2>1. CASE NextRevision = 0
    <3>1. cert' = None /\ run' = Idle /\ current' \in Seq(Ops)
      BY <1>2, <2>1, SplicedKeys DEF WInv
    <3> QED BY <3>1 DEF CertShape, WorkspaceIsCurrent
  <2>2. CASE NextRevision # 0
    BY <1>2, <2>2, EditedIsCurrent
  <2> QED BY <2>1, <2>2
<1> QED BY <1>2, <1>3, <1>4 DEF WInv, RunFields

LEMMA OptimizeNativeCurrent == ASSUME WInv, OptimizeNative PROVE WInv'
<1>1. PICK es \in Scripts(current) : current' = After(current, es, [i \in 0..Len(es) |-> Identity])
  BY DEF OptimizeNative
<1>2. current' \in Seq(Ops)
  BY <1>1, IdentityRenames, SplicedKeys DEF WInv
<1>3. /\ run = Idle /\ run' = run /\ revision' = NextRevision
      /\ cert' = IF NextRevision = 0 THEN None ELSE cert
  BY DEF OptimizeNative
<1>4. /\ revision \in Nat /\ revision' \in 0..(Revisions - 1)
      /\ NextRevision # 0 => revision' = revision + 1
  BY <1>3, NextRevisionInRange, Widths DEF WInv
<1>5. CertShape' /\ WorkspaceIsCurrent'
  <2>1. CASE cert' = None
    BY <1>3, <2>1 DEF CertShape, WorkspaceIsCurrent
  <2>2. CASE cert' # None
    <3>1. cert' = cert /\ NextRevision # 0
      BY <1>3, <2>2
    <3>2. cert.revision \in 0..revision
      BY <2>2, <3>1 DEF WInv, CertShape
    <3>3. cert'.revision \in 0..revision' /\ cert'.revision # revision'
      BY <1>4, <3>1, <3>2
    <3> QED BY <1>3, <3>1, <3>3 DEF WInv, CertShape, WorkspaceIsCurrent
  <2> QED BY <2>1, <2>2
<1> QED BY <1>2, <1>3, <1>4, <1>5 DEF WInv, RunFields

LEMMA CanonicalizeCurrent == ASSUME WInv, Canonicalize PROVE WInv'
<1>1. CASE UNCHANGED <<current, revision, cert>>
  BY <1>1 DEF Canonicalize, WInv, CertShape, RunFields, WorkspaceIsCurrent
<1>2. CASE ~ UNCHANGED <<current, revision, cert>>
  <2>1. PICK es \in Scripts(current) :
          /\ current' = After(current, es, [i \in 0..Len(es) |-> Identity])
          /\ revision' = NextRevision
          /\ cert' = IF NextRevision = 0 THEN None ELSE Edited(es, "Linear", current')
    BY <1>2 DEF Canonicalize
  <2>2. run = Idle /\ run' = run
    BY DEF Canonicalize
  <2>3. revision' \in 0..(Revisions - 1)
    BY <2>1, NextRevisionInRange DEF WInv
  <2>4. CertShape' /\ WorkspaceIsCurrent' /\ current' \in Seq(Ops)
    <3>1. CASE NextRevision = 0
      <4>1. cert' = None /\ run' = Idle /\ current' \in Seq(Ops)
        BY <2>1, <2>2, <3>1, IdentityRenames, SplicedKeys DEF WInv
      <4> QED BY <4>1 DEF CertShape, WorkspaceIsCurrent
    <3>2. CASE NextRevision # 0
      BY <2>1, <2>2, <3>2, IdentityRenames, EditedIsCurrent
    <3> QED BY <3>1, <3>2
  <2> QED BY <2>2, <2>3, <2>4 DEF WInv, RunFields
<1> QED BY <1>1, <1>2

LEMMA RewriteCurrent == ASSUME WInv, NEW cfg \in Configs, Rewrite(cfg) PROVE WInv'
<1>1. run = Idle /\ UNCHANGED <<current, revision, cert, canonical, unchanged>>
  BY DEF Rewrite
<1> DEFINE kept == Applies(cfg) /\ Eligible(current)
           keys == IF kept /\ cert.workspace # None /\ Len(cert.workspace) = Len(current)
                   THEN cert.workspace ELSE Keys(current)
<1>2. PICK incremental \in BOOLEAN :
        run' = [config |-> cfg, round |-> 1, changed |-> FALSE,
                incremental |-> Eligible(current) \/ incremental,
                anchors |-> IF kept THEN cert.pending ELSE 1..Len(current),
                keys |-> keys]
  BY DEF Rewrite
<1>3. keys = Keys(current)
  <2>1. CASE kept
    <3>1. cert # None /\ cert.revision = revision /\ run = Idle
      BY <1>1, <2>1 DEF Applies
    <3> QED BY <2>1, <3>1 DEF WInv, WorkspaceIsCurrent
  <2>2. CASE ~ kept
    BY <2>2
  <2> QED BY <2>1, <2>2
<1> HIDE DEF keys, kept
<1>4. run' # Idle
  <2>1. run'.round = 1
    BY <1>2
  <2> QED BY <2>1 DEF Idle
<1>5. RunFields' /\ run'.keys = Keys(current')
  BY <1>1, <1>2, <1>3 DEF RunFields
<1> QED BY <1>1, <1>4, <1>5 DEF WInv, CertShape, WorkspaceIsCurrent

LEMMA RoundCurrent == ASSUME WInv, Round PROVE WInv'
<1>1. run # Idle /\ UNCHANGED <<revision, cert, canonical, unchanged>>
  BY DEF Round
<1>2. PICK P \in Selections(Patches) :
        /\ current' = Patched(current, P, [p \in P |-> p.output])
        /\ run' = [run EXCEPT
                    !.round = @ + 1,
                    !.changed = TRUE,
                    !.keys = Patched(@, P, [p \in P |-> Keys(p.output)]),
                    !.anchors = IF Eligible(current)
                                THEN DirtyAfterPatches(Len(current), P, Reach(run.config))
                                ELSE IF run.incremental
                                THEN DirtyInBlocks(current, P, Reach(run.config))
                                ELSE 1..Len(current')]
  BY DEF Round
<1>3. /\ run = [x \in DOMAIN run |-> run[x]]
      /\ DOMAIN run = {"config", "round", "changed", "incremental", "anchors", "keys"}
      /\ run.round \in Nat \ {0} /\ run.config \in Configs /\ run.keys = Keys(current)
      /\ current \in Seq(Ops)
  BY <1>1 DEF WInv, RunFields, WorkspaceIsCurrent
<1>4. /\ run' = [x \in DOMAIN run' |-> run'[x]]
      /\ DOMAIN run' = {"config", "round", "changed", "incremental", "anchors", "keys"}
      /\ run'.round = run.round + 1 /\ run'.config = run.config /\ run'.changed = TRUE
      /\ run'.keys = Patched(run.keys, P, [p \in P |-> Keys(p.output)])
  BY <1>2, <1>3
<1>5. \A p \in P : p.output \in Seq(Ops)
  <2>1. P \subseteq Patches
    BY DEF Selections
  <2> QED BY <1>3, <2>1, ScannedInside, CandidateOutput DEF Patches
<1>6. current' \in Seq(Ops) /\ Keys(current') = run'.keys
  <2>1. /\ Patched(current, P, [p \in P |-> p.output]) \in Seq(Ops)
        /\ Keys(Patched(current, P, [p \in P |-> p.output]))
             = Patched(Keys(current), P, [p \in P |-> Keys(p.output)])
    BY <1>3, <1>5, PatchedKeys
  <2>2. run'.keys = Patched(Keys(current), P, [p \in P |-> Keys(p.output)])
    BY <1>3, <1>4, Zenon
  <2> QED BY <1>2, <2>1, <2>2, Zenon
<1>7. run'.round \in Nat \ {0}
  BY <1>3, <1>4
<1>8. run' # Idle
  <2>1. run'.round # 0
    BY <1>7
  <2> QED BY <2>1 DEF Idle
<1>9. RunFields'
  BY <1>3, <1>4, <1>7 DEF RunFields
<1> QED BY <1>1, <1>6, <1>8, <1>9 DEF WInv, CertShape, WorkspaceIsCurrent

LEMMA RecordCurrent == ASSUME WInv, Record PROVE WInv'
<1>1. run # Idle /\ run' = Idle /\ current' = current
  BY DEF Record
<1>2. revision' \in 0..(Revisions - 1)
  BY NextRevisionInRange DEF Record, WInv
<1>3. /\ run.config \in Configs /\ run.keys = Keys(current)
  BY <1>1 DEF WInv, RunFields, WorkspaceIsCurrent
<1>4. \/ cert' = None
      \/ cert' = [revision |-> revision', config |-> run.config,
                  reach |-> Reach(run.config), pending |-> {},
                  histogram |-> Histogram(current),
                  workspace |-> IF Eligible(current) THEN run.keys ELSE None]
  BY DEF Record
<1>5. CertShape' /\ WorkspaceIsCurrent'
  <2>1. CASE cert' = None
    BY <1>1, <2>1 DEF CertShape, WorkspaceIsCurrent
  <2>2. CASE cert' # None
    <3>1. /\ cert' = [x \in DOMAIN cert' |-> cert'[x]]
          /\ DOMAIN cert' = {"revision", "config", "reach", "pending", "histogram", "workspace"}
          /\ cert'.revision = revision' /\ cert'.config = run.config
          /\ cert'.reach = Reach(run.config) /\ cert'.histogram = Histogram(current)
          /\ cert'.workspace = IF Eligible(current) THEN run.keys ELSE None
      BY <1>4, <2>2
    <3>2. cert'.revision \in 0..revision'
      BY <1>2, <3>1, Widths
    <3> QED BY <1>1, <1>3, <3>1, <3>2 DEF CertShape, WorkspaceIsCurrent
  <2> QED BY <2>1, <2>2
<1> QED BY <1>1, <1>2, <1>5 DEF WInv, RunFields

(* The invariant is inductive. *)
THEOREM WorkspaceInductive == Spec => []WInv
<1>1. ASSUME WInv, [Next]_vars PROVE WInv'
  <2>1. CASE Pass
    BY <1>1, <2>1, PassCurrent
  <2>2. CASE OptimizeNative
    BY <1>1, <2>2, OptimizeNativeCurrent
  <2>3. CASE Canonicalize
    BY <1>1, <2>3, CanonicalizeCurrent
  <2>4. CASE Detach
    BY <1>1, <2>4 DEF Detach, WInv, CertShape, RunFields, WorkspaceIsCurrent
  <2>5. CASE \E cfg \in Configs : Rewrite(cfg)
    BY <1>1, <2>5, RewriteCurrent
  <2>6. CASE Round
    BY <1>1, <2>6, RoundCurrent
  <2>7. CASE Record
    BY <1>1, <2>7, RecordCurrent
  <2>8. CASE UNCHANGED vars
    BY <1>1, <2>8 DEF vars, WInv, CertShape, RunFields, WorkspaceIsCurrent
  <2> QED
    BY <1>1, <2>1, <2>2, <2>3, <2>4, <2>5, <2>6, <2>7, <2>8 DEF Next
<1> QED
  BY InitWInv, <1>1, PTL DEF Spec

(* The keys and the gate counts kept with a proof, and the keys of a       *)
(* rewrite being executed, are those of the current circuit                *)
(* (after_linear_replacements, patch_application_plan).                    *)
THEOREM WorkspaceCurrent == Spec => []WorkspaceIsCurrent
<1>1. WInv => WorkspaceIsCurrent
  BY DEF WInv
<1> QED
  BY WorkspaceInductive, <1>1, PTL

-----------------------------------------------------------------------------
(* Matching *)

(* A set of numbers has a least one. *)
LEMMA MinIsLeast ==
    ASSUME NEW S \in SUBSET Nat, S # {}
    PROVE  Min(S) \in S /\ \A y \in S : Min(S) <= y
<1>1. \E x \in S : \A y \in S : x =< y
  BY LeastNatural
<1> QED BY <1>1 DEF Min

(* One item of Found. *)
Item(c, keys, cfg, r, a, at, i) ==
    IF i = 1 THEN (IF keys[a] = r.source[1] /\ SameBlock(c, a, a) THEN a ELSE 0)
    ELSE IF at[i - 1] = 0 \/ Fitting(c, keys, cfg, r, a, at, i) = {} THEN 0
    ELSE Min(Fitting(c, keys, cfg, r, a, at, i))

(* An item is found from those before it. *)
LEMMA ItemDepends ==
    ASSUME NEW c, NEW keys, NEW cfg, NEW r, NEW a, NEW i \in Nat \ {0}, NEW f, NEW g,
           \A j \in 1..(i - 1) : f[j] = g[j]
    PROVE  Item(c, keys, cfg, r, a, f, i) = Item(c, keys, cfg, r, a, g, i)
<1>1. CASE i = 1
  BY <1>1 DEF Item
<1>2. CASE i # 1
  <2>1. f[i - 1] = g[i - 1]
    BY <1>2
  <2>2. {f[j] : j \in 1..(i - 1)} = {g[j] : j \in 1..(i - 1)}
    OBVIOUS
  <2>3. Fitting(c, keys, cfg, r, a, f, i) = Fitting(c, keys, cfg, r, a, g, i)
    BY <2>1, <2>2, Zenon DEF Fitting
  <2> QED BY <2>1, <2>3, Zenon DEF Item
<1> QED BY <1>1, <1>2

(* The recursion of Found has a solution. *)
Solves(f, c, keys, cfg, r, a, n) == f = [i \in 1..n |-> Item(c, keys, cfg, r, a, f, i)]

(* There is one: it is extended item by item. *)
LEMMA ItemsExist ==
    ASSUME NEW c, NEW keys, NEW cfg, NEW r, NEW a, NEW n \in Nat
    PROVE  \E f : Solves(f, c, keys, cfg, r, a, n)
<1> DEFINE item(f, i) == Item(c, keys, cfg, r, a, f, i)
           S == {m \in 0..n : \E f : f = [i \in 1..m |-> item(f, i)]}
<1>1. ASSUME NEW i \in Nat \ {0}, NEW f, NEW g, \A j \in 1..(i - 1) : f[j] = g[j]
      PROVE  item(f, i) = item(g, i)
  BY <1>1, ItemDepends
<1> HIDE DEF item
<1>2. 0 \in S
  <2> DEFINE f == [i \in 1..0 |-> 0]
  <2>1. f = [i \in 1..0 |-> item(f, i)]
    OBVIOUS
  <2> HIDE DEF f
  <2>2. \E g : g = [i \in 1..0 |-> item(g, i)]
    BY <2>1
  <2>3. 0 \in 0..n
    OBVIOUS
  <2> QED BY <2>2, <2>3, Zenon
<1>3. ASSUME NEW m \in 1..n, m - 1 \in S PROVE m \in S
  <2>1. PICK g : g = [i \in 1..(m - 1) |-> item(g, i)]
    BY <1>3
  <2> DEFINE f == [i \in 1..m |-> item(g, i)]
  <2>2. \A i \in 1..(m - 1) : f[i] = g[i]
    <3>1. SUFFICES ASSUME NEW i \in 1..(m - 1) PROVE f[i] = g[i]
      OBVIOUS
    <3>2. g[i] = item(g, i)
      BY <2>1
    <3>3. f[i] = item(g, i)
      OBVIOUS
    <3> QED BY <3>2, <3>3
  <2>3. f = [i \in 1..m |-> f[i]] /\ \A i \in 1..m : f[i] = item(g, i)
    OBVIOUS
  <2> HIDE DEF f
  <2>4. ASSUME NEW i \in 1..m PROVE f[i] = item(f, i)
    <3>1. i \in Nat \ {0} /\ \A j \in 1..(i - 1) : g[j] = f[j]
      BY <2>2
    <3>2. item(g, i) = item(f, i)
      BY <1>1, <3>1
    <3> QED BY <2>3, <3>2
  <2>5. f = [i \in 1..m |-> item(f, i)]
    BY <2>3, <2>4
  <2> QED BY <2>5
<1> HIDE DEF S
<1>4. \A m \in 1..n : m - 1 \in S => m \in S
  BY <1>3
<1>5. \A m \in 0..n : m \in S
  BY <1>2, <1>4, CountUp
<1>6. n \in S
  BY <1>5
<1> QED BY <1>6 DEF S, item, Solves

(* Found is a solution. *)
LEMMA FoundItems ==
    ASSUME NEW c, NEW keys, NEW cfg, NEW r \in Rules, NEW a
    PROVE  Solves(Found(c, keys, cfg, r, a), c, keys, cfg, r, a, Len(r.source))
<1> DEFINE n == Len(r.source)
           at == CHOOSE f : Solves(f, c, keys, cfg, r, a, n)
<1>1. n \in Nat
  BY RuleShapes
<1>2. \E f : Solves(f, c, keys, cfg, r, a, n)
  <2> HIDE DEF n
  <2> QED BY <1>1, ItemsExist
<1>3. Solves(at, c, keys, cfg, r, a, n)
  <2> HIDE DEF n
  <2> QED BY <1>2
<1>4. Found(c, keys, cfg, r, a) = at
  BY DEF Found, Item, Solves
<1> QED BY <1>3, <1>4, Zenon

(* A finite set of numbers that all have a bound has a greatest one. *)
LEMMA MaxIsGreatest ==
    ASSUME NEW S \in SUBSET Nat, S # {}, NEW b \in Nat, \A x \in S : x <= b
    PROVE  Max(S) \in S /\ \A y \in S : y <= Max(S)
<1> DEFINE T == {b - x : x \in S}
<1>1. T \subseteq Nat /\ T # {}
  <2>1. \A x \in S : x \in Nat /\ x <= b
    OBVIOUS
  <2>2. \A x \in S : b - x \in Nat
    BY <2>1
  <2> QED BY <2>2
<1>2. PICK n \in T : \A m \in T : n <= m
  BY <1>1, LeastNatural
<1>3. PICK x \in S : n = b - x
  BY <1>2
<1>4. \A y \in S : b - x <= b - y
  BY <1>2, <1>3
<1>5. \A y \in S : x >= y
  BY <1>4
<1> QED BY <1>5 DEF Max

(* What the rules with a source need is bounded. *)
LEMMA ReachBounds ==
    ASSUME NEW cfg \in Configs
    PROVE  /\ Reach(cfg) \in Nat
           /\ \A r \in Considered(cfg) : (Len(r.source) - 1) * cfg.window <= Reach(cfg)
<1> DEFINE C == Considered(cfg)
           far(r) == (Len(r.source) - 1) * cfg.window
           Bounded(T) == \E b \in Nat : \A r \in T : far(r) <= b
           Bad == {T \in SUBSET C : ~ Bounded(T)}
<1>1. C \subseteq Rules /\ IsFiniteSet(C)
  BY RuleShapes, FS_Subset DEF Considered
<1>2. cfg.window \in Nat /\ \A r \in C : Len(r.source) \in Nat /\ Len(r.source) - 1 \in Nat
  BY <1>1, RuleShapes
<1>3. \A r \in C : far(r) \in Nat
  BY <1>2
<1> HIDE DEF far, C
<1>4. Bad = {}
  <2>1. SUFFICES ASSUME Bad # {} PROVE FALSE
    OBVIOUS
  <2>2. Bad \in SUBSET SUBSET C
    OBVIOUS
  <2>3. PICK T \in Bad : \A U \in Bad : Cardinality(T) <= Cardinality(U)
    <3> HIDE DEF Bad
    <3> QED BY <1>1, <2>1, <2>2, LeastPart
  <2>4. T # {}
    <3>1. 0 \in Nat /\ \A r \in {} : far(r) <= 0
      OBVIOUS
    <3> QED BY <2>3, <3>1
  <2>5. IsFiniteSet(T) /\ T \subseteq C
    BY <1>1, <2>3, FS_Subset
  <2> DEFINE r == Pick(T)
             U == T \ {r}
  <2>6. r \in T /\ ~ (Cardinality(T) <= Cardinality(U))
    <3> HIDE DEF Bad
    <3> QED BY <2>4, <2>5, Picking
  <2> HIDE DEF r
  <2>7. U \notin Bad
    BY <2>3, <2>6
  <2>8. PICK b \in Nat : \A q \in U : far(q) <= b
    BY <2>5, <2>7
  <2>9. far(r) \in Nat /\ \A q \in T : far(q) \in Nat
    BY <1>3, <2>5, <2>6
  <2>10. far(r) + b \in Nat /\ \A q \in T : far(q) <= far(r) + b
    <3>1. \A q \in T : q = r \/ q \in U
      OBVIOUS
    <3> QED BY <2>8, <2>9, <3>1
  <2> QED BY <2>3, <2>10
<1>5. PICK b \in Nat : \A r \in C : far(r) <= b
  BY <1>4
<1> DEFINE S == {far(r) : r \in C} \cup {0}
<1>6. S \in SUBSET Nat /\ S # {} /\ \A x \in S : x <= b
  BY <1>3, <1>5
<1>7. Reach(cfg) = Max(S)
  BY DEF Reach, far, C
<1>8. Max(S) \in S /\ \A y \in S : y <= Max(S)
  <2> HIDE DEF S
  <2> QED BY <1>6, MaxIsGreatest
<1>9. Max(S) \in Nat /\ \A r \in C : far(r) <= Max(S)
  BY <1>6, <1>8
<1> QED BY <1>7, <1>9 DEF far, C

(* Where item i may be found when at[1], ..., at[i - 1] are: Fitting, for  *)
(* keys that are those of the circuit.                                     *)
Fits1(c, w, r, a, at, i, q) ==
    /\ q \in 1..Len(c) /\ at[i - 1] < q /\ q <= at[i - 1] + w
    /\ c[q].gate = r.source[i] /\ c[q].qubit = c[a].qubit
    /\ SameBlock(c, a, q)
    /\ \A n \in (at[i - 1] + 1)..(q - 1) : c[n].qubit = c[a].qubit =>
        /\ Commute(c[n].gate, c[q].gate)
        /\ \A j \in 1..(i - 1) : Commute(c[n].gate, c[at[j]].gate)

(* The rule's items are found at the positions at, each at the first that  *)
(* fits.                                                                   *)
Chain(c, w, r, a, at) ==
    /\ at \in [1..Len(r.source) -> 1..Len(c)]
    /\ at[1] = a /\ c[a].gate = r.source[1]
    /\ \A i \in 2..Len(r.source) :
        /\ Fits1(c, w, r, a, at, i, at[i])
        /\ \A q \in 1..Len(c) : Fits1(c, w, r, a, at, i, q) => at[i] <= q

(* Fitting, position by position. *)
LEMMA FittingIs ==
    ASSUME NEW c \in Seq(Ops), NEW cfg \in Configs, NEW r, NEW a,
           NEW at, NEW i \in Nat, \A j \in 1..(i - 1) : at[j] \in 1..Len(c), i >= 2
    PROVE  \A q : q \in Fitting(c, Keys(c), cfg, r, a, at, i)
                    <=> Fits1(c, cfg.window, r, a, at, i, q)
<1> DEFINE b == at[i - 1]
           w == cfg.window
           len == Len(c)
           m == Min({len, b + w})
<1>1. b \in 1..len /\ len \in Nat /\ w \in Nat
  BY RuleShapes
<1>2. m \in {len, b + w} /\ m <= len /\ m <= b + w
  <2> HIDE DEF b, w, len
  <2>1. {len, b + w} \in SUBSET Nat /\ {len, b + w} # {}
    BY <1>1
  <2> DEFINE S == {len, b + w}
  <2> HIDE DEF S
  <2>2. Min(S) \in S /\ \A y \in S : Min(S) <= y
    BY <2>1, MinIsLeast DEF S
  <2> QED BY <2>2 DEF S
<1>3. \A n \in 1..len : Keys(c)[n] = c[n].gate
  BY KeysShape
<1>4. ASSUME NEW q
      PROVE  q \in (b + 1)..m <=> q \in 1..len /\ b < q /\ q <= b + w
  <2> HIDE DEF m, b, w, len
  <2> QED BY <1>1, <1>2
<1>5. ASSUME NEW q \in 1..len, NEW n \in (b + 1)..(q - 1)
      PROVE  (\A x \in {at[j] : j \in 1..(i - 1)} \cup {q} : Commute(Keys(c)[n], Keys(c)[x]))
               <=> /\ Commute(c[n].gate, c[q].gate)
                   /\ \A j \in 1..(i - 1) : Commute(c[n].gate, c[at[j]].gate)
  <2>1. Keys(c)[n] = c[n].gate /\ Keys(c)[q] = c[q].gate
    <3>1. n \in 1..len
      BY <1>1
    <3> QED BY <1>3, <3>1
  <2>2. \A j \in 1..(i - 1) : Keys(c)[at[j]] = c[at[j]].gate
    BY <1>3
  <2> HIDE DEF b, len
  <2>3. (\A x \in {at[j] : j \in 1..(i - 1)} \cup {q} : Commute(Keys(c)[n], Keys(c)[x]))
          <=> /\ Commute(Keys(c)[n], Keys(c)[q])
              /\ \A j \in 1..(i - 1) : Commute(Keys(c)[n], Keys(c)[at[j]])
    OBVIOUS
  <2> QED BY <2>1, <2>2, <2>3
<1>6. ASSUME NEW q
      PROVE q \in Fitting(c, Keys(c), cfg, r, a, at, i)
              <=> Fits1(c, cfg.window, r, a, at, i, q)
  <2>1. q \in Fitting(c, Keys(c), cfg, r, a, at, i)
          <=> /\ q \in (b + 1)..m
              /\ Keys(c)[q] = r.source[i] /\ c[q].qubit = c[a].qubit /\ SameBlock(c, a, q)
              /\ \A n \in (b + 1)..(q - 1) : c[n].qubit = c[a].qubit =>
                    \A x \in {at[j] : j \in 1..(i - 1)} \cup {q} : Commute(Keys(c)[n], Keys(c)[x])
    BY Zenon DEF Fitting
  <2>2. Fits1(c, cfg.window, r, a, at, i, q)
          <=> /\ q \in 1..len /\ b < q /\ q <= b + w
              /\ c[q].gate = r.source[i] /\ c[q].qubit = c[a].qubit /\ SameBlock(c, a, q)
              /\ \A n \in (b + 1)..(q - 1) : c[n].qubit = c[a].qubit =>
                    /\ Commute(c[n].gate, c[q].gate)
                    /\ \A j \in 1..(i - 1) : Commute(c[n].gate, c[at[j]].gate)
    BY Zenon DEF Fits1
  <2> HIDE DEF b, m, w, len
  <2>3. CASE q \notin 1..len
    BY <1>4, <2>1, <2>2, <2>3
  <2>4. CASE q \in 1..len
    <3>1. Keys(c)[q] = c[q].gate
      BY <1>3, <2>4
    <3>2. (\A n \in (b + 1)..(q - 1) : c[n].qubit = c[a].qubit =>
                    \A x \in {at[j] : j \in 1..(i - 1)} \cup {q} : Commute(Keys(c)[n], Keys(c)[x]))
           <=> (\A n \in (b + 1)..(q - 1) : c[n].qubit = c[a].qubit =>
                    /\ Commute(c[n].gate, c[q].gate)
                    /\ \A j \in 1..(i - 1) : Commute(c[n].gate, c[at[j]].gate))
      BY <1>5, <2>4
    <3> QED BY <1>4, <2>1, <2>2, <3>1, <3>2, Zenon
  <2> QED BY <2>3, <2>4
<1> QED BY <1>6

(* A rule that is found to its end is found item by item. *)
LEMMA FoundChain ==
    ASSUME NEW c \in Seq(Ops), NEW cfg \in Configs, NEW r \in Rules, NEW a \in 1..Len(c),
           Found(c, Keys(c), cfg, r, a)[Len(r.source)] # 0
    PROVE  Chain(c, cfg.window, r, a, Found(c, Keys(c), cfg, r, a))
<1> DEFINE at == Found(c, Keys(c), cfg, r, a)
           n == Len(r.source)
           len == Len(c)
           fit(i) == Fitting(c, Keys(c), cfg, r, a, at, i)
<1>1. n \in Nat \ {0} /\ len \in Nat /\ at[n] # 0
  BY RuleShapes
<1>2. ASSUME NEW i \in 1..n
      PROVE  at[i] = IF i = 1 THEN (IF Keys(c)[a] = r.source[1] /\ SameBlock(c, a, a) THEN a ELSE 0)
                     ELSE IF at[i - 1] = 0 \/ fit(i) = {} THEN 0 ELSE Min(fit(i))
  <2>1. at[i] = Item(c, Keys(c), cfg, r, a, at, i)
    <3>1. Solves(at, c, Keys(c), cfg, r, a, n)
      BY FoundItems
    <3> HIDE DEF at, n
    <3> QED BY <3>1 DEF Solves
  <2> QED BY <2>1 DEF Item
<1>3. at = [i \in 1..n |-> at[i]]
  <2>1. Solves(at, c, Keys(c), cfg, r, a, n)
    BY FoundItems
  <2> HIDE DEF at, n
  <2> QED BY <2>1 DEF Solves
<1>a. \A m \in 1..len : Keys(c)[m] = c[m].gate
  BY KeysShape
<1> HIDE DEF at, n, fit, len
<1>4. \A i \in 1..n : at[i] # 0
  <2> DEFINE S == {k \in 0..(n - 1) : at[n - k] # 0}
  <2>1. 0 \in S
    BY <1>1
  <2>2. ASSUME NEW k \in 1..(n - 1), k - 1 \in S PROVE k \in S
    <3>1. n - (k - 1) \in 1..n /\ n - (k - 1) # 1 /\ (n - (k - 1)) - 1 = n - k /\ k \in 0..(n - 1)
      BY <1>1
    <3>2. at[n - (k - 1)] # 0
      BY <2>2
    <3>3. at[n - k] # 0
      BY <1>2, <3>1, <3>2
    <3> QED BY <3>1, <3>3
  <2> HIDE DEF S
  <2>3. \A k \in 0..(n - 1) : k \in S
    <3>1. n - 1 \in Nat
      BY <1>1
    <3> QED BY <2>1, <2>2, <3>1, CountUp
  <2>4. SUFFICES ASSUME NEW i \in 1..n PROVE at[i] # 0
    OBVIOUS
  <2>5. n - i \in 0..(n - 1) /\ n - (n - i) = i
    BY <1>1
  <2>6. n - i \in S
    BY <2>3, <2>5
  <2> QED BY <2>5, <2>6 DEF S
<1>5. at[1] = a /\ c[a].gate = r.source[1]
  <2>1. 1 \in 1..n /\ Keys(c)[a] = c[a].gate
    BY <1>1, <1>a DEF len
  <2> QED BY <1>2, <1>4, <2>1
<1> DEFINE here(i) == \A j \in 1..i : at[j] \in 1..len
<1>6. ASSUME NEW i \in 2..n, here(i - 1)
      PROVE  /\ at[i] \in fit(i) /\ \A q \in fit(i) : at[i] <= q
             /\ \A q : q \in fit(i) <=> Fits1(c, cfg.window, r, a, at, i, q)
  <2>1. i \in Nat /\ i >= 2 /\ i \in 1..n /\ i # 1
    BY <1>1
  <2>2. \A q : q \in fit(i) <=> Fits1(c, cfg.window, r, a, at, i, q)
    <3>1. \A j \in 1..(i - 1) : at[j] \in 1..Len(c)
      BY <1>6 DEF len
    <3> QED BY <2>1, <3>1, FittingIs DEF fit
  <2>3. fit(i) # {} /\ at[i] = Min(fit(i))
    BY <1>2, <1>4, <2>1
  <2>4. fit(i) \in SUBSET Nat
    BY <2>2 DEF Fits1
  <2>5. Min(fit(i)) \in fit(i) /\ \A q \in fit(i) : Min(fit(i)) <= q
    <3> DEFINE S == fit(i)
    <3> HIDE DEF S
    <3>1. Min(S) \in S /\ \A q \in S : Min(S) <= q
      BY <2>3, <2>4, MinIsLeast DEF S
    <3> QED BY <3>1 DEF S
  <2> QED BY <2>2, <2>3, <2>5
<1>7. \A i \in 1..n : here(i)
  <2> DEFINE S == {i \in 0..n : here(i)}
  <2>1. 0 \in S
    BY <1>1
  <2>2. ASSUME NEW i \in 1..n, i - 1 \in S PROVE i \in S
    <3>1. here(i - 1) /\ i \in 0..n
      BY <2>2, <1>1
    <3>2. at[i] \in 1..len
      <4>1. CASE i = 1
        BY <1>5, <4>1 DEF len
      <4>2. CASE i # 1
        <5>1. i \in 2..n
          BY <1>1, <4>2
        <5>2. Fits1(c, cfg.window, r, a, at, i, at[i])
          BY <1>6, <3>1, <5>1
        <5> QED BY <5>2 DEF Fits1, len
      <4> QED BY <4>1, <4>2
    <3>3. \A j \in 1..i : j = i \/ j \in 1..(i - 1)
      BY <1>1
    <3> QED BY <3>1, <3>2, <3>3
  <2> HIDE DEF S
  <2>3. \A i \in 0..n : i \in S
    BY <1>1, <2>1, <2>2, CountUp
  <2> QED BY <2>3 DEF S
<1>8. at \in [1..n -> 1..len]
  <2>1. \A i \in 1..n : at[i] \in 1..len
    BY <1>1, <1>7
  <2> QED BY <1>3, <2>1
<1>9. ASSUME NEW i \in 2..n
      PROVE  /\ Fits1(c, cfg.window, r, a, at, i, at[i])
             /\ \A q \in 1..len : Fits1(c, cfg.window, r, a, at, i, q) => at[i] <= q
  <2>1. here(i - 1)
    <3>1. \A j \in 1..(i - 1) : j \in 1..n
      BY <1>1
    <3> QED BY <1>8, <3>1
  <2> HIDE DEF here
  <2> QED BY <1>6, <2>1
<1>10. Chain(c, cfg.window, r, a, at)
  BY <1>5, <1>8, <1>9 DEF Chain, n, len
<1> QED BY <1>10 DEF at

(* And the other way round. *)
LEMMA ChainFound ==
    ASSUME NEW c \in Seq(Ops), NEW cfg \in Configs, NEW r \in Rules, NEW a \in 1..Len(c),
           NEW at, Chain(c, cfg.window, r, a, at)
    PROVE  Found(c, Keys(c), cfg, r, a) = at
<1> DEFINE f == Found(c, Keys(c), cfg, r, a)
           n == Len(r.source)
           item(g, i) == Item(c, Keys(c), cfg, r, a, g, i)
<1>1. n \in Nat \ {0} /\ r.source \in Seq(Keyed)
  BY RuleShapes
<1>2. f = [i \in 1..n |-> f[i]] /\ \A i \in 1..n : f[i] = item(f, i)
  <2>1. Solves(f, c, Keys(c), cfg, r, a, n)
    BY FoundItems
  <2> HIDE DEF f, n
  <2>2. f = [i \in 1..n |-> item(f, i)]
    BY <2>1 DEF Solves
  <2> HIDE DEF item
  <2> QED BY <2>2
<1>3. at \in [1..n -> 1..Len(c)] /\ at[1] = a /\ c[a].gate = r.source[1]
  BY DEF Chain
<1>4. ASSUME NEW i \in 1..n PROVE at[i] = item(at, i)
  <2>1. CASE i = 1
    <3>1. Keys(c)[a] = c[a].gate
      BY KeysShape
    <3>2. r.source[1] \in Keyed
      BY <1>1
    <3>3. SameBlock(c, a, a)
      BY <1>3, <3>2 DEF SameBlock
    <3> QED BY <1>3, <2>1, <3>1, <3>3 DEF Item
  <2>2. CASE i # 1
    <3> DEFINE S == Fitting(c, Keys(c), cfg, r, a, at, i)
    <3>1. i \in 2..n /\ i \in Nat /\ i >= 2 /\ i - 1 \in 1..n
      BY <1>1, <2>2
    <3>2. \A q : q \in S <=> Fits1(c, cfg.window, r, a, at, i, q)
      <4>1. \A j \in 1..(i - 1) : at[j] \in 1..Len(c)
        BY <1>3, <3>1
      <4> QED BY <3>1, <4>1, FittingIs
    <3>3. /\ Fits1(c, cfg.window, r, a, at, i, at[i])
          /\ \A q \in 1..Len(c) : Fits1(c, cfg.window, r, a, at, i, q) => at[i] <= q
      BY <3>1 DEF Chain
    <3>4. S \in SUBSET (1..Len(c))
      BY <3>2 DEF Fits1
    <3>5. at[i - 1] # 0 /\ item(at, i) = IF S = {} THEN 0 ELSE Min(S)
      <4>1. at[i - 1] \in 1..Len(c)
        BY <1>3, <3>1
      <4> QED BY <2>2, <4>1 DEF Item
    <3> HIDE DEF S, item
    <3>6. at[i] \in S /\ \A q \in S : at[i] <= q
      BY <3>2, <3>3, <3>4
    <3>7. Min(S) \in S /\ \A q \in S : Min(S) <= q
      <4>1. S \in SUBSET Nat /\ S # {}
        BY <3>4, <3>6
      <4> QED BY <4>1, MinIsLeast
    <3>8. Min(S) = at[i]
      <4>1. Min(S) <= at[i] /\ at[i] <= Min(S) /\ Min(S) \in 1..Len(c) /\ at[i] \in 1..Len(c)
        BY <3>4, <3>6, <3>7
      <4> QED BY <4>1
    <3> QED BY <3>5, <3>6, <3>8
  <2> QED BY <2>1, <2>2
<1>5. ASSUME NEW i \in 1..n, \A j \in 1..(i - 1) : f[j] = at[j] PROVE f[i] = at[i]
  <2>1. item(f, i) = item(at, i)
    BY <1>5, ItemDepends
  <2> HIDE DEF item, f
  <2> QED BY <1>2, <1>4, <2>1
<1> HIDE DEF f, item
<1> DEFINE S == {i \in 0..n : \A j \in 1..i : f[j] = at[j]}
<1>6. 0 \in S
  BY <1>1
<1>7. ASSUME NEW i \in 1..n, i - 1 \in S PROVE i \in S
  <2>1. \A j \in 1..(i - 1) : f[j] = at[j]
    BY <1>7
  <2>2. f[i] = at[i]
    BY <1>5, <2>1
  <2>3. i \in 0..n /\ \A j \in 1..i : j = i \/ j \in 1..(i - 1)
    BY <1>1
  <2> QED BY <2>1, <2>2, <2>3
<1> HIDE DEF S
<1>8. \A i \in 0..n : i \in S
  BY <1>1, <1>6, <1>7, CountUp
<1>9. n \in S
  BY <1>1, <1>8
<1>10. \A j \in 1..n : f[j] = at[j]
  BY <1>9 DEF S
<1>11. f = at
  BY <1>2, <1>3, <1>10
<1> QED BY <1>11 DEF f

(* How far the items of a rule are from its anchor. *)
LEMMA ChainSpan ==
    ASSUME NEW c \in Seq(Ops), NEW cfg \in Configs, NEW r \in Rules, NEW a \in 1..Len(c),
           NEW at, Chain(c, cfg.window, r, a, at)
    PROVE  /\ Len(r.source) \in Nat \ {0}
           /\ \A i \in 1..Len(r.source) :
                /\ at[i] \in 1..Len(c) /\ a <= at[i] /\ at[i] <= at[Len(r.source)]
                /\ at[i] <= a + (i - 1) * cfg.window
           /\ SameBlock(c, a, at[Len(r.source)])
<1> DEFINE n == Len(r.source)
           w == cfg.window
           len == Len(c)
<1>1. n \in Nat \ {0} /\ r.source \in Seq(Keyed) /\ w \in Nat /\ len \in Nat
  BY RuleShapes
<1>2. at \in [1..n -> 1..len] /\ at[1] = a /\ c[a].gate = r.source[1]
  BY DEF Chain
<1>3. ASSUME NEW i \in 2..n PROVE Fits1(c, w, r, a, at, i, at[i])
  BY DEF Chain
<1> HIDE DEF n, w, len
<1>4. \A i \in 2..n : at[i - 1] < at[i] /\ at[i] <= at[i - 1] + w
  BY <1>3 DEF Fits1
<1>5. \A i \in 1..n : at[i] \in Nat
  BY <1>2
<1>6. \A i \in 1..n : a <= at[i] /\ at[i] <= a + (i - 1) * w
  <2> DEFINE S == {i \in 0..n : i = 0 \/ (a <= at[i] /\ at[i] <= a + (i - 1) * w)}
  <2>1. 0 \in S
    BY <1>1
  <2>2. ASSUME NEW i \in 1..n, i - 1 \in S PROVE i \in S
    <3>1. CASE i = 1
      BY <1>1, <1>2, <3>1
    <3>2. CASE i # 1
      <4>1. i \in 2..n /\ i - 1 # 0 /\ i - 1 \in 1..n /\ i \in 0..n
        BY <1>1, <3>2
      <4>2. a <= at[i - 1] /\ at[i - 1] <= a + ((i - 1) - 1) * w
        BY <2>2, <4>1
      <4>3. at[i - 1] < at[i] /\ at[i] <= at[i - 1] + w
        BY <1>4, <4>1
      <4>4. (i - 1) * w = ((i - 1) - 1) * w + w
        <5> DEFINE k == (i - 1) - 1
        <5>1. k \in Nat /\ i - 1 = k + 1
          BY <1>1, <4>1
        <5> HIDE DEF k
        <5>2. (k + 1) * w = k * w + w
          BY <1>1, <5>1
        <5> QED BY <5>1, <5>2 DEF k
      <4>5. at[i] \in Nat /\ at[i - 1] \in Nat /\ a \in Nat
        BY <1>5, <4>1
      <4> DEFINE x == ((i - 1) - 1) * w
                 y == (i - 1) * w
      <4>6. x \in Int /\ y = x + w
        BY <1>1, <4>1, <4>4
      <4> HIDE DEF x, y
      <4>7. a <= at[i - 1] /\ at[i - 1] <= a + x
        BY <4>2 DEF x
      <4>8. a <= at[i] /\ at[i] <= a + y
        BY <1>1, <4>3, <4>5, <4>6, <4>7
      <4> QED BY <4>1, <4>8 DEF y
    <3> QED BY <3>1, <3>2
  <2> HIDE DEF S
  <2>3. \A i \in 0..n : i \in S
    BY <1>1, <2>1, <2>2, CountUp
  <2>4. SUFFICES ASSUME NEW i \in 1..n PROVE a <= at[i] /\ at[i] <= a + (i - 1) * w
    OBVIOUS
  <2>5. i \in S /\ i # 0
    BY <1>1, <2>3
  <2> QED BY <2>5 DEF S
<1>7. \A i \in 1..n : at[i] <= at[n]
  <2> DEFINE S == {k \in 0..(n - 1) : at[n - k] <= at[n]}
  <2>1. 0 \in S
    BY <1>1, <1>5
  <2>2. ASSUME NEW k \in 1..(n - 1), k - 1 \in S PROVE k \in S
    <3>1. n - (k - 1) \in 2..n /\ (n - (k - 1)) - 1 = n - k /\ k \in 0..(n - 1) /\ n - k \in 1..n
      BY <1>1
    <3>2. at[n - (k - 1)] <= at[n]
      BY <2>2
    <3>3. at[n - k] < at[n - (k - 1)]
      BY <1>4, <3>1
    <3>4. at[n - k] \in Nat /\ at[n] \in Nat /\ at[n - (k - 1)] \in Nat
      BY <1>1, <1>5, <3>1
    <3> QED BY <3>1, <3>2, <3>3, <3>4
  <2> HIDE DEF S
  <2>3. \A k \in 0..(n - 1) : k \in S
    <3>1. n - 1 \in Nat
      BY <1>1
    <3> QED BY <2>1, <2>2, <3>1, CountUp
  <2>4. SUFFICES ASSUME NEW i \in 1..n PROVE at[i] <= at[n]
    OBVIOUS
  <2>5. n - i \in 0..(n - 1) /\ n - (n - i) = i
    BY <1>1
  <2>6. n - i \in S
    BY <2>3, <2>5
  <2> QED BY <2>5, <2>6 DEF S
<1>8. SameBlock(c, a, at[n])
  <2>1. CASE n = 1
    <3>1. r.source[1] \in Keyed
      BY <1>1 DEF n
    <3> QED BY <1>2, <2>1, <3>1 DEF SameBlock
  <2>2. CASE n # 1
    <3>1. n \in 2..n
      BY <1>1, <2>2
    <3> QED BY <1>3, <3>1 DEF Fits1
  <2> QED BY <2>1, <2>2
<1> QED BY <1>1, <1>2, <1>6, <1>7, <1>8 DEF n, w, len

(* An active rule matches at the anchor and may be applied there. *)
Fires(c, cfg, r, a, at) ==
    /\ r \in Active(cfg) /\ AllowsRewrite(cfg, r)
    /\ Chain(c, cfg.window, r, a, at)
    /\ \A n \in a..at[Len(r.source)] :
        n \notin Range(at) /\ c[n].qubit = c[a].qubit =>
            \A i \in 1..Len(r.target) : Commute(c[n].gate, r.target[i])

Replacing(c, r, a, at) ==
    [first |-> a, last |-> at[Len(r.source)], matched |-> Range(at),
     output |-> [i \in 1..Len(r.target) |-> [gate |-> r.target[i], qubit |-> c[a].qubit]]]

(* The candidates at an anchor are the rules that fire there. *)
LEMMA CandidateFires ==
    ASSUME NEW c \in Seq(Ops), NEW cfg \in Configs, NEW a \in 1..Len(c),
           NEW p \in CandidatesAt(c, Keys(c), cfg, a)
    PROVE  \E r \in Active(cfg) : \E at : Fires(c, cfg, r, a, at) /\ p = Replacing(c, r, a, at)
<1> DEFINE found(r) == Found(c, Keys(c), cfg, r, a)
           fires(r) ==
              LET at == found(r)
                  skipped == {n \in a..at[Len(r.source)] : n \notin Range(at)
                                                  /\ c[n].qubit = c[a].qubit}
              IN  /\ at[Len(r.source)] # 0
                  /\ \A n \in skipped, i \in 1..Len(r.target) : Commute(Keys(c)[n], r.target[i])
                  /\ AllowsRewrite(cfg, r)
<1>1. PICK r \in {s \in Active(cfg) : fires(s)} : p = Replacing(c, r, a, found(r))
  BY Zenon DEF CandidatesAt, Replacing
<1>2. r \in Active(cfg) /\ r \in Rules /\ fires(r)
  BY DEF Active, Considered
<1> DEFINE at == found(r)
<1>3. Chain(c, cfg.window, r, a, at)
  BY <1>2, FoundChain
<1>4. at[Len(r.source)] \in 1..Len(c)
  BY <1>2, <1>3, ChainSpan
<1>5. ASSUME NEW n \in a..at[Len(r.source)], n \notin Range(at), c[n].qubit = c[a].qubit,
             NEW i \in 1..Len(r.target)
      PROVE  Commute(c[n].gate, r.target[i])
  <2>1. n \in 1..Len(c)
    BY <1>4
  <2>2. Keys(c)[n] = c[n].gate
    BY <2>1, KeysShape
  <2>3. Commute(Keys(c)[n], r.target[i])
    BY <1>2, <1>5
  <2> QED BY <2>2, <2>3
<1>6. Fires(c, cfg, r, a, at)
  BY <1>2, <1>3, <1>5 DEF Fires
<1> QED BY <1>1, <1>2, <1>6

(* Every match is a candidate. *)
LEMMA FiringIsCandidate ==
    ASSUME NEW c \in Seq(Ops), NEW cfg \in Configs, NEW a \in 1..Len(c),
           NEW r, NEW at, Fires(c, cfg, r, a, at)
    PROVE  Replacing(c, r, a, at) \in CandidatesAt(c, Keys(c), cfg, a)
<1> DEFINE found(s) == Found(c, Keys(c), cfg, s, a)
           fires(s) ==
              LET f == found(s)
                  skipped == {n \in a..f[Len(s.source)] : n \notin Range(f)
                                                  /\ c[n].qubit = c[a].qubit}
              IN  /\ f[Len(s.source)] # 0
                  /\ \A n \in skipped, i \in 1..Len(s.target) : Commute(Keys(c)[n], s.target[i])
                  /\ AllowsRewrite(cfg, s)
<1>1. r \in Active(cfg) /\ r \in Rules /\ AllowsRewrite(cfg, r) /\ Chain(c, cfg.window, r, a, at)
  BY DEF Fires, Active, Considered
<1>2. found(r) = at
  BY <1>1, ChainFound
<1>3. at[Len(r.source)] \in 1..Len(c)
  BY <1>1, ChainSpan
<1>4. fires(r)
  <2> HIDE DEF found
  <2>1. ASSUME NEW n \in a..at[Len(r.source)] PROVE Keys(c)[n] = c[n].gate
    <3>1. n \in 1..Len(c)
      BY <1>3
    <3> QED BY <3>1, KeysShape
  <2>2. at[Len(r.source)] # 0
    BY <1>3
  <2> QED BY <1>1, <1>2, <2>1, <2>2 DEF Fires
<1>5. Replacing(c, r, a, found(r)) \in CandidatesAt(c, Keys(c), cfg, a)
  <2>1. CandidatesAt(c, Keys(c), cfg, a) =
          {Replacing(c, s, a, found(s)) : s \in {s \in Active(cfg) : fires(s)}}
    BY Zenon DEF CandidatesAt, Replacing
  <2> HIDE DEF found, fires
  <2> QED BY <1>1, <1>4, <2>1
<1> QED BY <1>2, <1>5, Zenon

(* The first n places of a match, s earlier. *)
Earlier(at, n, s) == [i \in 1..n |-> at[i] - s]

(* Whether a rule fires depends on the operations from its anchor to its   *)
(* last match: their gates, and whether they are on the anchor's qubit.    *)
LEMMA FiresShifted ==
    ASSUME NEW c \in Seq(Ops), NEW d \in Seq(Ops), NEW cfg \in Configs, NEW r, NEW at,
           NEW a \in 1..Len(c), NEW b \in 1..Len(d), Fires(d, cfg, r, b, at),
           NEW s \in Int, s = b - a,
           \A n \in b..at[Len(r.source)] :
              /\ n - s \in 1..Len(c)
              /\ c[n - s].gate = d[n].gate
              /\ c[n - s].qubit = c[a].qubit <=> d[n].qubit = d[b].qubit
    PROVE  Fires(c, cfg, r, a, Earlier(at, Len(r.source), s))
<1> DEFINE n == Len(r.source)
           w == cfg.window
           to == Earlier(at, n, s)
           last == at[n]
<1>1. r \in Active(cfg) /\ r \in Rules /\ AllowsRewrite(cfg, r) /\ Chain(d, w, r, b, at)
  BY DEF Fires, Active, Considered
<1>2. /\ n \in Nat \ {0}
      /\ \A i \in 1..n : at[i] \in 1..Len(d) /\ b <= at[i] /\ at[i] <= last
  BY <1>1, ChainSpan
<1>3. \A i \in 1..n : to[i] = at[i] - s
  BY DEF Earlier
<1>4. /\ at[1] = b /\ d[b].gate = r.source[1]
      /\ at \in [1..n -> 1..Len(d)]
  BY <1>1 DEF Chain
<1>5. ASSUME NEW i \in 2..n
      PROVE  /\ Fits1(d, w, r, b, at, i, at[i])
             /\ \A q \in 1..Len(d) : Fits1(d, w, r, b, at, i, q) => at[i] <= q
  BY <1>1 DEF Chain
<1>6. last \in Nat /\ b \in Nat /\ a \in Nat /\ w \in Nat /\ Len(d) \in Nat /\ Len(c) \in Nat
  BY <1>2, RuleShapes
<1>7. ASSUME NEW k \in b..last
      PROVE  /\ k - s \in 1..Len(c) /\ c[k - s].gate = d[k].gate
             /\ c[k - s].qubit = c[a].qubit <=> d[k].qubit = d[b].qubit
             /\ k \in 1..Len(d)
  <2>1. last \in 1..Len(d)
    BY <1>2
  <2>2. k \in 1..Len(d)
    <3> HIDE DEF last, n, to, w
    <3> QED BY <1>6, <2>1
  <2>3. /\ k - s \in 1..Len(c) /\ c[k - s].gate = d[k].gate
        /\ c[k - s].qubit = c[a].qubit <=> d[k].qubit = d[b].qubit
    OBVIOUS
  <2> QED BY <2>2, <2>3
<1> HIDE DEF to, n, last, w
<1>8. ASSUME NEW i \in 2..n, NEW q \in b..last
      PROVE  Fits1(c, w, r, a, to, i, q - s) <=> Fits1(d, w, r, b, at, i, q)
  <2>1. /\ i - 1 \in 1..n /\ to[i - 1] = at[i - 1] - s
        /\ at[i - 1] \in Nat /\ b <= at[i - 1] /\ at[i - 1] <= last
    <3>1. i - 1 \in 1..n
      BY <1>2
    <3> QED BY <1>2, <1>3, <3>1
  <2>2. \A j \in 1..(i - 1) : c[to[j]].gate = d[at[j]].gate
    <3>1. SUFFICES ASSUME NEW j \in 1..(i - 1) PROVE c[to[j]].gate = d[at[j]].gate
      OBVIOUS
    <3>2. j \in 1..n
      BY <1>2
    <3>3. at[j] \in b..last /\ to[j] = at[j] - s
      <4>1. at[j] \in 1..Len(d) /\ b <= at[j] /\ at[j] <= last
        BY <1>2, <3>2
      <4> QED BY <1>3, <1>6, <3>2, <4>1
    <3> QED BY <1>7, <3>3
  <2>3. /\ q - s \in 1..Len(c) /\ q \in 1..Len(d) /\ c[q - s].gate = d[q].gate
        /\ c[q - s].qubit = c[a].qubit <=> d[q].qubit = d[b].qubit
    BY <1>7
  <2>4. to[i - 1] < q - s /\ q - s <= to[i - 1] + w <=> at[i - 1] < q /\ q <= at[i - 1] + w
    BY <1>6, <2>1
  <2>5. SameBlock(c, a, q - s) <=> SameBlock(d, b, q)
    <3>1. ASSUME SameBlock(c, a, q - s), NEW k \in b..q PROVE d[k].gate \in Keyed
      <4>1. k - s \in a..(q - s) /\ k \in b..last
        BY <1>6
      <4> QED BY <1>7, <3>1, <4>1 DEF SameBlock
    <3>2. ASSUME SameBlock(d, b, q), NEW k \in a..(q - s) PROVE c[k].gate \in Keyed
      <4>1. k + s \in b..q /\ k + s \in b..last /\ (k + s) - s = k
        BY <1>6
      <4>2. c[(k + s) - s].gate = d[k + s].gate
        BY <1>7, <4>1
      <4>3. d[k + s].gate \in Keyed
        BY <3>2, <4>1 DEF SameBlock
      <4> QED BY <4>1, <4>2, <4>3
    <3> QED BY <3>1, <3>2 DEF SameBlock
  <2> DEFINE between(e, o, from, till, fix, x) ==
                \A k \in from..till : e[k].qubit = e[o].qubit =>
                    /\ Commute(e[k].gate, e[x].gate)
                    /\ \A j \in 1..(i - 1) : Commute(e[k].gate, e[fix[j]].gate)
  <2>6. between(c, a, to[i - 1] + 1, (q - s) - 1, to, q - s)
          <=> between(d, b, at[i - 1] + 1, q - 1, at, q)
    <3>1. ASSUME between(c, a, to[i - 1] + 1, (q - s) - 1, to, q - s),
                 NEW k \in (at[i - 1] + 1)..(q - 1), d[k].qubit = d[b].qubit
          PROVE  /\ Commute(d[k].gate, d[q].gate)
                 /\ \A j \in 1..(i - 1) : Commute(d[k].gate, d[at[j]].gate)
      <4>1. k - s \in (to[i - 1] + 1)..((q - s) - 1) /\ k \in b..last
        <5> DEFINE x == at[i - 1]
                   y == to[i - 1]
        <5>1. /\ x \in Nat /\ b <= x /\ y = x - s /\ q \in b..last
              /\ k \in (x + 1)..(q - 1) /\ last \in Nat /\ b \in Nat
          BY <1>6, <2>1
        <5> HIDE DEF x, y
        <5>2. k - s \in (y + 1)..((q - s) - 1) /\ k \in b..last
          BY <5>1
        <5> QED BY <5>2 DEF x, y
      <4>2. c[k - s].gate = d[k].gate /\ c[k - s].qubit = c[a].qubit
        BY <1>7, <3>1, <4>1
      <4> QED BY <2>2, <2>3, <3>1, <4>1, <4>2
    <3>2. ASSUME between(d, b, at[i - 1] + 1, q - 1, at, q),
                 NEW k \in (to[i - 1] + 1)..((q - s) - 1), c[k].qubit = c[a].qubit
          PROVE  /\ Commute(c[k].gate, c[q - s].gate)
                 /\ \A j \in 1..(i - 1) : Commute(c[k].gate, c[to[j]].gate)
      <4>1. k + s \in (at[i - 1] + 1)..(q - 1) /\ k + s \in b..last /\ (k + s) - s = k
        <5> DEFINE x == at[i - 1]
                   y == to[i - 1]
        <5>1. /\ x \in Nat /\ b <= x /\ y = x - s /\ q \in b..last
              /\ k \in (y + 1)..((q - s) - 1) /\ last \in Nat /\ b \in Nat
          BY <1>6, <2>1
        <5> HIDE DEF x, y
        <5>2. k + s \in (x + 1)..(q - 1) /\ k + s \in b..last /\ (k + s) - s = k
          BY <5>1
        <5> QED BY <5>2 DEF x, y
      <4>2. c[k].gate = d[k + s].gate /\ d[k + s].qubit = d[b].qubit
        <5>1. /\ c[(k + s) - s].gate = d[k + s].gate
              /\ c[(k + s) - s].qubit = c[a].qubit <=> d[k + s].qubit = d[b].qubit
          BY <1>7, <4>1
        <5> QED BY <3>2, <4>1, <5>1
      <4> QED BY <2>2, <2>3, <3>2, <4>1, <4>2
    <3> QED BY <3>1, <3>2
  <2>7. Fits1(c, w, r, a, to, i, q - s)
          <=> /\ q - s \in 1..Len(c) /\ to[i - 1] < q - s /\ q - s <= to[i - 1] + w
              /\ c[q - s].gate = r.source[i] /\ c[q - s].qubit = c[a].qubit
              /\ SameBlock(c, a, q - s)
              /\ between(c, a, to[i - 1] + 1, (q - s) - 1, to, q - s)
    BY Zenon DEF Fits1
  <2>8. Fits1(d, w, r, b, at, i, q)
          <=> /\ q \in 1..Len(d) /\ at[i - 1] < q /\ q <= at[i - 1] + w
              /\ d[q].gate = r.source[i] /\ d[q].qubit = d[b].qubit
              /\ SameBlock(d, b, q)
              /\ between(d, b, at[i - 1] + 1, q - 1, at, q)
    BY Zenon DEF Fits1
  <2> HIDE DEF between
  <2> QED BY <2>3, <2>4, <2>5, <2>6, <2>7, <2>8
<1>9. ASSUME NEW i \in 1..n PROVE at[i] \in b..last /\ to[i] = at[i] - s /\ to[i] \in 1..Len(c)
  <2>1. at[i] \in 1..Len(d) /\ b <= at[i] /\ at[i] <= last
    BY <1>2
  <2>2. at[i] \in b..last
    BY <1>6, <2>1
  <2> QED BY <1>3, <1>7, <2>2
<1>10. Chain(c, w, r, a, to)
  <2>1. to \in [1..n -> 1..Len(c)]
    <3>1. to = [i \in 1..n |-> at[i] - s]
      BY DEF to, Earlier
    <3> QED BY <1>9, <3>1
  <2>2. to[1] = a /\ c[a].gate = r.source[1]
    <3>1. 1 \in 1..n /\ b \in b..last /\ b - s = a
      BY <1>2, <1>4, <1>6, <1>9
    <3> QED BY <1>4, <1>7, <1>9, <3>1
  <2>3. ASSUME NEW i \in 2..n PROVE Fits1(c, w, r, a, to, i, to[i])
    <3>1. i \in 1..n
      BY <1>2
    <3> QED BY <1>5, <1>8, <1>9, <3>1
  <2>4. ASSUME NEW i \in 2..n, NEW q \in 1..Len(c), Fits1(c, w, r, a, to, i, q)
        PROVE  to[i] <= q
    <3>1. i \in 1..n /\ i - 1 \in 1..n
      BY <1>2
    <3>2. to[i - 1] < q
      BY <2>4 DEF Fits1
    <3>3. at[i] \in b..last /\ at[i - 1] \in b..last /\ to[i] = at[i] - s /\ to[i - 1] = at[i - 1] - s
      BY <1>9, <3>1
    <3>4. SUFFICES ASSUME ~ (to[i] <= q) PROVE FALSE
      OBVIOUS
    <3>5. q + s \in b..last /\ (q + s) - s = q /\ ~ (at[i] <= q + s)
      BY <1>6, <3>2, <3>3, <3>4
    <3>6. Fits1(d, w, r, b, at, i, q + s)
      BY <1>8, <2>4, <3>5
    <3>7. q + s \in 1..Len(d)
      BY <1>7, <3>5
    <3> QED BY <1>5, <3>5, <3>6, <3>7
  <2> QED BY <2>1, <2>2, <2>3, <2>4 DEF Chain, n
<1>11. ASSUME NEW k \in a..to[n], k \notin Range(to), c[k].qubit = c[a].qubit,
              NEW i \in 1..Len(r.target)
       PROVE  Commute(c[k].gate, r.target[i])
  <2>1. to[n] = last - s /\ n \in 1..n
    BY <1>2, <1>3 DEF last
  <2>2. k + s \in b..last /\ (k + s) - s = k
    BY <1>6, <2>1
  <2>3. k + s \notin Range(at)
    <3>1. SUFFICES ASSUME NEW j \in 1..n, k + s = at[j] PROVE FALSE
      BY <1>4 DEF Range
    <3>2. to[j] = k
      BY <1>9, <3>1
    <3>3. DOMAIN to = 1..n
      BY DEF to, Earlier
    <3> QED BY <1>11, <3>2, <3>3 DEF Range
  <2>4. /\ c[(k + s) - s].gate = d[k + s].gate
        /\ c[(k + s) - s].qubit = c[a].qubit <=> d[k + s].qubit = d[b].qubit
    BY <1>7, <2>2
  <2>5. d[k + s].qubit = d[b].qubit /\ c[k].gate = d[k + s].gate
    BY <1>11, <2>2, <2>4
  <2>6. Commute(d[k + s].gate, r.target[i])
    BY <2>2, <2>3, <2>5 DEF Fires, last, n
  <2> QED BY <2>5, <2>6
<1>12. Fires(c, cfg, r, a, to)
  BY <1>1, <1>10, <1>11 DEF Fires, n, w
<1> QED BY <1>12 DEF to, n

(* No rule matches at the anchor. *)
Clean(c, cfg, a) == CandidatesAt(c, Keys(c), cfg, a) = {}

(* An anchor is clean if nothing fires there. *)
LEMMA CleanMeans ==
    ASSUME NEW c \in Seq(Ops), NEW cfg \in Configs, NEW a \in 1..Len(c)
    PROVE  Clean(c, cfg, a) <=> \A r, at : ~ Fires(c, cfg, r, a, at)
<1>1. ASSUME Clean(c, cfg, a), NEW r, NEW at, Fires(c, cfg, r, a, at) PROVE FALSE
  BY <1>1, FiringIsCandidate DEF Clean
<1>2. ASSUME ~ Clean(c, cfg, a) PROVE \E r, at : Fires(c, cfg, r, a, at)
  <2>1. PICK p : p \in CandidatesAt(c, Keys(c), cfg, a)
    BY <1>2 DEF Clean
  <2>2. PICK r \in Active(cfg) : \E at : Fires(c, cfg, r, a, at) /\ p = Replacing(c, r, a, at)
    BY <2>1, CandidateFires
  <2> QED BY <2>2
<1> QED BY <1>1, <1>2

(* A match stays within the reach of its configuration. *)
LEMMA FiresWithin ==
    ASSUME NEW c \in Seq(Ops), NEW cfg \in Configs, NEW a \in 1..Len(c),
           NEW r, NEW at, Fires(c, cfg, r, a, at)
    PROVE  /\ r \in Rules /\ Len(r.source) \in Nat \ {0}
           /\ at[Len(r.source)] \in a..Len(c) /\ at[Len(r.source)] <= a + Reach(cfg)
           /\ \A n \in a..at[Len(r.source)] : c[n].gate \in Keyed
           /\ c[a].gate \in Keyed
<1> DEFINE n == Len(r.source)
           w == cfg.window
<1>1. r \in Considered(cfg) /\ r \in Rules /\ Chain(c, w, r, a, at)
  BY DEF Fires, Active, Considered
<1>2. /\ n \in Nat \ {0} /\ n \in 1..n
      /\ at[n] \in 1..Len(c) /\ a <= at[n] /\ at[n] <= a + (n - 1) * w
      /\ SameBlock(c, a, at[n])
  BY <1>1, ChainSpan
<1>3. Reach(cfg) \in Nat /\ (n - 1) * w <= Reach(cfg)
  BY <1>1, ReachBounds
<1>4. (n - 1) * w \in Int
  <2>1. n - 1 \in Int /\ w \in Int
    BY <1>2, RuleShapes
  <2> HIDE DEF n, w
  <2> QED BY <2>1
<1> DEFINE far == (n - 1) * w
<1> HIDE DEF far
<1>5. far \in Int /\ far <= Reach(cfg) /\ at[n] <= a + far
  BY <1>2, <1>3, <1>4 DEF far
<1>6. at[n] <= a + Reach(cfg) /\ at[n] \in a..Len(c) /\ a \in a..at[n]
  BY <1>2, <1>3, <1>5
<1> QED BY <1>1, <1>2, <1>6 DEF SameBlock

(* Positions can be counted. *)
LEMMA SizeIsNatural ==
    ASSUME NEW n \in Nat, NEW S \in SUBSET (1..n)
    PROVE  IsFiniteSet(S) /\ Cardinality(S) \in Nat
<1>1. IsFiniteSet(1..n)
  BY FS_Interval
<1>2. IsFiniteSet(S)
  BY <1>1, FS_Subset
<1> QED BY <1>2, FS_CardinalityType

(* What fires under a configuration fires under one it is a subset of.     *)
LEMMA FiresSubset ==
    ASSUME NEW c \in Seq(Ops), NEW asked \in Configs, NEW proof \in Configs,
           ConfigSubset(asked, proof, Histogram(c)),
           NEW a \in 1..Len(c), NEW r, NEW at, Fires(c, asked, r, a, at)
    PROVE  Fires(c, proof, r, a, at)
<1> DEFINE n == Len(r.source)
<1>1. /\ r \in Active(asked) /\ r \in Rules /\ AllowsRewrite(asked, r)
      /\ Chain(c, asked.window, r, a, at)
  BY DEF Fires, Active, Considered
<1>2. asked.window \in Nat /\ proof.window \in Nat /\ asked.window <= proof.window
  BY RuleShapes DEF ConfigSubset
<1>3. /\ n \in Nat \ {0}
      /\ \A i \in 1..n : at[i] \in 1..Len(c)
      /\ r.source \in Seq(Keyed) /\ r.target \in Seq(Keyed)
  BY <1>1, ChainSpan, RuleShapes
<1>4. Chain(c, proof.window, r, a, at)
  <2>1. ASSUME NEW i \in 2..n
        PROVE  /\ Fits1(c, asked.window, r, a, at, i, at[i])
               /\ \A q \in 1..Len(c) : Fits1(c, asked.window, r, a, at, i, q) => at[i] <= q
    BY <1>1 DEF Chain
  <2>2. ASSUME NEW i \in 2..n PROVE Fits1(c, proof.window, r, a, at, i, at[i])
    <3>1. i - 1 \in 1..n /\ i \in 1..n
      BY <1>3
    <3>2. at[i - 1] \in Nat /\ at[i] \in Nat
      BY <1>3, <3>1
    <3>3. at[i] <= at[i - 1] + asked.window
      BY <2>1 DEF Fits1
    <3>4. at[i] <= at[i - 1] + proof.window
      BY <1>2, <3>2, <3>3
    <3> QED BY <2>1, <3>4, Zenon DEF Fits1
  <2>3. ASSUME NEW i \in 2..n, NEW q \in 1..Len(c), Fits1(c, proof.window, r, a, at, i, q)
        PROVE  at[i] <= q
    <3>1. i - 1 \in 1..n /\ i \in 1..n
      BY <1>3
    <3>2. at[i - 1] \in Nat /\ at[i] \in Nat /\ q \in Nat
      BY <1>3, <3>1
    <3>3. at[i] <= at[i - 1] + asked.window
      BY <2>1 DEF Fits1
    <3>4. CASE q <= at[i - 1] + asked.window
      <4>1. Fits1(c, asked.window, r, a, at, i, q)
        BY <2>3, <3>4, Zenon DEF Fits1
      <4> QED BY <2>1, <4>1
    <3>5. CASE ~ (q <= at[i - 1] + asked.window)
      BY <1>2, <3>2, <3>3, <3>5
    <3> QED BY <3>4, <3>5
  <2> QED BY <1>1, <2>2, <2>3 DEF Chain
<1>5. r \in Considered(proof)
  <2>1. /\ r.kind \in asked.kinds /\ Len(r.source) <= asked.pattern
        /\ r.kind \in {"Decompose", "HardwareNative"} => asked.mode = "Lowering"
    BY <1>1 DEF Active, Considered, AllowsKind
  <2>2. /\ asked.kinds \subseteq proof.kinds /\ asked.pattern <= proof.pattern
        /\ asked.mode = proof.mode
    BY DEF ConfigSubset
  <2>3. Len(r.source) <= proof.pattern
    BY <1>3, <2>1, <2>2, RuleShapes
  <2> QED BY <1>1, <2>1, <2>2, <2>3 DEF Considered, AllowsKind
<1>6. r \in Active(proof) /\ AllowsRewrite(proof, r)
  <2>1. CASE asked.target = proof.target
    <3>1. asked.mode = proof.mode
      BY DEF ConfigSubset
    <3> QED BY <1>1, <1>5, <2>1, <3>1 DEF Active, AllowsRewrite, Unsupported
  <2>2. CASE asked.target # proof.target
    <3>1. /\ asked.target # None /\ proof.target = None
          /\ {g \in Keyed : Histogram(c)[g] > 0} \subseteq asked.target
      BY <2>2 DEF ConfigSubset
    <3>2. ASSUME NEW i \in 1..n PROVE r.source[i] \in asked.target
      <4>1. c[at[i]].gate = r.source[i]
        <5>1. CASE i = 1
          BY <1>1, <5>1 DEF Chain
        <5>2. CASE i # 1
          <6>1. i \in 2..n
            BY <1>3, <5>2
          <6>2. Fits1(c, asked.window, r, a, at, i, at[i])
            BY <1>1, <6>1 DEF Chain
          <6> QED BY <6>2 DEF Fits1
        <5> QED BY <5>1, <5>2
      <4> DEFINE g == r.source[i]
                 S == {k \in 1..Len(c) : c[k].gate = g}
      <4>2. g \in Keyed /\ at[i] \in S
        BY <1>3, <4>1
      <4>3. IsFiniteSet(S) /\ Cardinality(S) \in Nat
        <5>1. Len(c) \in Nat /\ S \in SUBSET (1..Len(c))
          OBVIOUS
        <5> HIDE DEF S
        <5> QED BY <5>1, SizeIsNatural
      <4>4. Histogram(c)[g] = Cardinality(S)
        BY <4>2 DEF Histogram
      <4>5. Cardinality(S) # 0
        <5> HIDE DEF S
        <5> QED BY <4>2, <4>3, FS_EmptySet
      <4> QED BY <3>1, <4>2, <4>3, <4>4, <4>5
    <3>3. Unsupported(asked, r.source) = 0
      <4>1. {i \in 1..n : r.source[i] \notin asked.target} = {}
        BY <3>2
      <4> QED BY <3>1, <4>1, FS_EmptySet DEF Unsupported
    <3>4. Unsupported(asked, r.target) \in Nat
      <4>1. Len(r.target) \in Nat
        BY <1>3
      <4>2. Cardinality({i \in 1..Len(r.target) : r.target[i] \notin asked.target}) \in Nat
        BY <4>1, SizeIsNatural
      <4> QED BY <3>1, <4>2 DEF Unsupported
    <3>5. Len(r.target) < Len(r.source)
      BY <1>1, <3>1, <3>3, <3>4 DEF AllowsRewrite
    <3>6. Unsupported(proof, r.source) = 0 /\ Unsupported(proof, r.target) = 0
      BY <3>1 DEF Unsupported
    <3> QED BY <1>5, <3>1, <3>5, <3>6 DEF Active, AllowsRewrite
  <2> QED BY <2>1, <2>2
<1> QED BY <1>4, <1>6 DEF Fires

(* So an anchor that is clean for a proof is clean for what it serves.     *)
LEMMA CleanSubset ==
    ASSUME NEW c \in Seq(Ops), NEW asked \in Configs, NEW proof \in Configs,
           ConfigSubset(asked, proof, Histogram(c)),
           NEW a \in 1..Len(c), Clean(c, proof, a)
    PROVE  Clean(c, asked, a)
BY FiresSubset, CleanMeans

-----------------------------------------------------------------------------
(* Matches behind an edit script *)

(* A sequence is the front of another. *)
InFront(f, g) == Len(f) <= Len(g) /\ \A m \in 1..Len(f) : g[m] = f[m]

(* What a sequence is extended to keeps it in front. *)
LEMMA FrontsKept ==
    ASSUME NEW T, NEW n \in Nat, NEW F \in [0..n -> Seq(T)],
           \A k \in 1..n : \E g \in Seq(T) : F[k] = F[k - 1] \o g,
           NEW i \in 0..n, NEW j \in 0..n, i <= j
    PROVE  InFront(F[i], F[j])
<1>1. ASSUME NEW k \in 1..n PROVE InFront(F[k - 1], F[k])
  <2>1. PICK g \in Seq(T) : F[k] = F[k - 1] \o g
    OBVIOUS
  <2>2. F[k - 1] \in Seq(T)
    <3>1. k - 1 \in 0..n
      OBVIOUS
    <3> QED BY <3>1
  <2> DEFINE f == F[k - 1]
  <2> HIDE DEF f
  <2>3. f \in Seq(T) /\ F[k] = f \o g
    BY <2>1, <2>2 DEF f
  <2>4. Len(f) <= Len(f \o g) /\ \A m \in 1..Len(f) : (f \o g)[m] = f[m]
    BY <2>3
  <2> QED BY <2>3, <2>4 DEF f, InFront
<1>2. \A k \in 0..n : Len(F[k]) \in Nat
  <2>1. \A k \in 0..n : F[k] \in Seq(T)
    OBVIOUS
  <2> QED BY <2>1
<1> DEFINE S == {k \in 0..(n - i) : InFront(F[i], F[i + k])}
<1>3. 0 \in S
  <2>1. InFront(F[i], F[i])
    BY <1>2 DEF InFront
  <2> QED BY <2>1
<1>4. ASSUME NEW k \in 1..(n - i), k - 1 \in S PROVE k \in S
  <2>1. i + k \in 1..n /\ (i + k) - 1 = i + (k - 1) /\ i + (k - 1) \in 0..n /\ k \in 0..(n - i)
        /\ i + k \in 0..n
    OBVIOUS
  <2>2. InFront(F[i], F[i + (k - 1)])
    BY <1>4
  <2>3. InFront(F[i + (k - 1)], F[i + k])
    BY <1>1, <2>1
  <2> DEFINE x == F[i + (k - 1)]
             y == F[i + k]
             z == F[i]
  <2>4. Len(z) \in Nat /\ Len(x) \in Nat /\ Len(y) \in Nat
    BY <1>2, <2>1
  <2>5. /\ Len(z) <= Len(x) /\ Len(x) <= Len(y)
        /\ \A m \in 1..Len(z) : x[m] = z[m]
        /\ \A m \in 1..Len(x) : y[m] = x[m]
    BY <2>2, <2>3 DEF InFront
  <2> HIDE DEF x, y, z
  <2>6. Len(z) <= Len(y) /\ \A m \in 1..Len(z) : y[m] = z[m]
    BY <2>4, <2>5
  <2> QED BY <2>1, <2>6 DEF x, y, z, InFront
<1> HIDE DEF S
<1>5. \A k \in 0..(n - i) : k \in S
  <2>1. n - i \in Nat
    OBVIOUS
  <2> QED BY <1>3, <1>4, <2>1, CountUp
<1>6. j - i \in S /\ i + (j - i) = j
  <2>1. j - i \in 0..(n - i)
    OBVIOUS
  <2> QED BY <1>5, <2>1
<1> QED BY <1>6 DEF S

(* Every place was in front or came with one of the extensions.            *)
LEMMA PlacedBy ==
    ASSUME NEW T, NEW n \in Nat, NEW F \in [0..n -> Seq(T)], NEW b \in 1..Len(F[n])
    PROVE  \/ b <= Len(F[0])
           \/ \E j \in 1..n : Len(F[j - 1]) < b /\ b <= Len(F[j])
<1> DEFINE S == {j \in 0..n : b <= Len(F[j])}
<1>1. S \in SUBSET Nat /\ n \in S
  OBVIOUS
<1>2. PICK j \in S : \A k \in S : j <= k
  BY <1>1, LeastNatural
<1>3. CASE j = 0
  BY <1>3
<1>4. CASE j # 0
  <2>1. j \in 1..n /\ j - 1 \in 0..n
    BY <1>4
  <2>2. j - 1 \notin S
    BY <1>2, <2>1
  <2>3. ~ (b <= Len(F[j - 1]))
    BY <2>1, <2>2
  <2>4. F[j - 1] \in Seq(T) /\ F[n] \in Seq(T)
    BY <2>1
  <2>5. Len(F[j - 1]) < b
    BY <2>3, <2>4
  <2> QED BY <2>1, <2>5
<1> QED BY <1>3, <1>4

(* The sums of an edit script. *)
LEMMA ShiftSums ==
    ASSUME NEW c \in Seq(Ops), NEW es \in Scripts(c)
    PROVE  /\ Shift(es, 0) = 0
           /\ \A j \in 0..Len(es) : Shift(es, j) \in Int
           /\ \A j \in 1..Len(es) :
                Shift(es, j) = Shift(es, j - 1) + (Len(es[j].ops) - (es[j].to - es[j].from))
<1> DEFINE n == Len(es)
           w == [i \in DOMAIN es |-> Len(es[i].ops) - (es[i].to - es[i].from)]
<1>1. DOMAIN es = 1..n /\ n \in Nat
  <2>1. PICK m \in 0..MaxEdits : es \in [1..m -> Replacements(c)]
    BY DEF Scripts, BoundedSeq, SeqOf
  <2> QED BY <2>1, Widths
<1>2. \A i \in 1..n : w[i] = Len(es[i].ops) - (es[i].to - es[i].from)
  BY <1>1
<1>3. \A i \in 1..n : w[i] \in Int
  <2>1. SUFFICES ASSUME NEW i \in 1..n PROVE w[i] \in Int
    OBVIOUS
  <2>2. es[i].ops \in Seq(Ops) /\ es[i].to \in Int /\ es[i].from \in Int
    BY ScriptShape
  <2>3. Len(es[i].ops) \in Nat
    BY <2>2
  <2> QED BY <1>2, <2>2, <2>3
<1>4. \A j : Shift(es, j) = SumFunctionOnSet(w, 1..j)
  BY DEF Shift
<1> HIDE DEF w, n
<1>5. ASSUME NEW j \in 0..n PROVE SumFunctionOnSet(w, 1..j) \in Int
  <2>1. IsFiniteSet(1..j) /\ \A i \in 1..j : w[i] \in Int
    BY <1>1, <1>3, FS_Interval
  <2> QED BY <2>1, SumIsInteger
<1>6. ASSUME NEW j \in 1..n
      PROVE  SumFunctionOnSet(w, 1..j) = SumFunctionOnSet(w, 1..(j - 1)) + w[j]
  <2>1. j \in Nat \ {0} /\ \A i \in 1..j : w[i] \in Int
    BY <1>1, <1>3
  <2> QED BY <2>1, SumUpTo
<1>7. SumFunctionOnSet(w, 1..0) = 0
  <2>1. 1..0 = {}
    OBVIOUS
  <2>2. SumFunctionOnSet(w, {}) = 0
    BY SumEmpty
  <2> QED BY <2>1, <2>2, Zenon
<1>8. \A j \in 0..n : Shift(es, j) \in Int
  BY <1>4, <1>5
<1>9. \A j \in 1..n : Shift(es, j) = Shift(es, j - 1) + w[j]
  BY <1>4, <1>6
<1>10. Shift(es, 0) = 0
  BY <1>4, <1>7
<1> QED BY <1>2, <1>8, <1>9, <1>10 DEF n

(* What a replacement occupies in the new circuit begins here. *)
Start(es, j) == es[j].from + Shift(es, j - 1)

(* Every place of the new circuit is of a replacement or of a gap, and     *)
(* what is in a gap has moved by the shift so far.                         *)
LEMMA ScriptPlaces ==
    ASSUME NEW c \in Seq(Ops), NEW es \in Scripts(c), NEW names \in [0..Len(es) -> Renamings],
           NEW d, d = After(c, es, names)
    PROVE  /\ d \in Seq(Ops) /\ Len(d) = Len(c) + Shift(es, Len(es))
           /\ \A j \in 0..Len(es), i \in 1..Len(c) :
                i \in GapFrom(es, j)..GapTo(es, j, Len(c)) =>
                    /\ i + Shift(es, j) \in 1..Len(d)
                    /\ d[i + Shift(es, j)].gate = c[i].gate
                    /\ d[i + Shift(es, j)].qubit = names[j][c[i].qubit]
           /\ \A b \in 1..Len(d) :
                \/ \E j \in 1..Len(es) : Start(es, j) <= b /\ b < Start(es, j) + Len(es[j].ops)
                \/ \E j \in 0..Len(es), i \in 1..Len(c) :
                      i \in GapFrom(es, j)..GapTo(es, j, Len(c)) /\ b = i + Shift(es, j)
           /\ \A j \in 1..Len(es) :
                /\ Start(es, j) \in Int /\ 1 <= Start(es, j)
                /\ Start(es, j) = GapTo(es, j - 1, Len(c)) + Shift(es, j - 1) + 1
<1> DEFINE n == Len(es)
           len == Len(c)
           g(j) == Renamed(Gap(c, es, j), names[j])
<1>1. n \in Nat /\ len \in Nat
  BY ScriptShape
<1>2. PICK F : Grows(F, c, es, names)
  BY AfterGrows
<1>3. /\ F \in [0..n -> Seq(Ops)] /\ F[0] = g(0) /\ F[n] = d
      /\ \A j \in 1..n : F[j] = F[j - 1] \o (es[j].ops \o g(j))
  BY <1>2 DEF Grows
<1>4. ASSUME NEW j \in 0..n
      PROVE  /\ g(j) \in Seq(Ops) /\ Len(g(j)) = GapTo(es, j, len) - GapFrom(es, j) + 1
             /\ GapFrom(es, j) \in 1..(len + 1) /\ GapTo(es, j, len) \in 0..len
             /\ \A m \in 1..Len(g(j)) :
                  /\ g(j)[m].gate = c[GapFrom(es, j) + m - 1].gate
                  /\ g(j)[m].qubit = names[j][c[GapFrom(es, j) + m - 1].qubit]
  <2> DEFINE s == Gap(c, es, j)
  <2>1. /\ s \in Seq(Ops) /\ Len(s) = GapTo(es, j, len) - GapFrom(es, j) + 1
        /\ \A m \in 1..Len(s) : s[m] = c[GapFrom(es, j) + m - 1]
    BY GapOf
  <2>2. names[j] \in Renamings
    OBVIOUS
  <2> HIDE DEF s
  <2>3. /\ Renamed(s, names[j]) \in Seq(Ops) /\ Len(Renamed(s, names[j])) = Len(s)
        /\ \A m \in 1..Len(s) : /\ Renamed(s, names[j])[m].gate = s[m].gate
                                /\ Renamed(s, names[j])[m].qubit = names[j][s[m].qubit]
    BY <2>1, <2>2, RenamedShape
  <2>4. GapFrom(es, j) \in 1..(len + 1) /\ GapTo(es, j, len) \in 0..len
    BY GapShape
  <2> QED BY <2>1, <2>3, <2>4 DEF s
<1> HIDE DEF g
<1>5. ASSUME NEW j \in 1..n
      PROVE  /\ j - 1 \in 0..n /\ j \in 0..n
             /\ GapFrom(es, j) = es[j].to /\ GapTo(es, j - 1, len) = es[j].from - 1
             /\ es[j].to \in Nat /\ es[j].from \in Nat /\ es[j].from >= 1
             /\ es[j].ops \in Seq(Ops) /\ Len(es[j].ops) \in Nat
  <2>1. j - 1 # n /\ (j - 1) + 1 = j /\ j # 0 /\ j - 1 \in 0..n /\ j \in 0..n
    BY <1>1
  <2>2. es[j].to \in Nat /\ es[j].from \in Nat /\ es[j].ops \in Seq(Ops) /\ es[j].from >= 1
    BY ScriptShape
  <2>3. Len(es[j].ops) \in Nat
    BY <2>2
  <2> QED BY <2>1, <2>2, <2>3 DEF GapFrom, GapTo
<1>6. /\ Shift(es, 0) = 0
      /\ \A j \in 0..n : Shift(es, j) \in Int
      /\ \A j \in 1..n : Shift(es, j) = Shift(es, j - 1) + (Len(es[j].ops) - (es[j].to - es[j].from))
  BY ShiftSums
<1>7. ASSUME NEW j \in 1..n
      PROVE  /\ Len(F[j]) = Len(F[j - 1]) + Len(es[j].ops) + Len(g(j))
             /\ \A m \in 1..Len(g(j)) : F[j][Len(F[j - 1]) + Len(es[j].ops) + m] = g(j)[m]
             /\ Len(F[j - 1]) \in Nat
  <2> DEFINE x == F[j - 1]
             y == es[j].ops
             z == g(j)
  <2>1. x \in Seq(Ops) /\ y \in Seq(Ops) /\ z \in Seq(Ops) /\ F[j] = x \o (y \o z)
    BY <1>3, <1>4, <1>5
  <2> HIDE DEF x, y, z
  <2>2. /\ y \o z \in Seq(Ops) /\ Len(y \o z) = Len(y) + Len(z)
        /\ \A m \in 1..Len(z) : (y \o z)[Len(y) + m] = z[m]
    BY <2>1
  <2> DEFINE v == y \o z
  <2> HIDE DEF v
  <2>3. v \in Seq(Ops) /\ Len(v) = Len(y) + Len(z) /\ \A m \in 1..Len(z) : v[Len(y) + m] = z[m]
    BY <2>2 DEF v
  <2>4. /\ Len(x \o v) = Len(x) + Len(v)
        /\ \A m \in 1..Len(v) : (x \o v)[Len(x) + m] = v[m]
        /\ Len(x) \in Nat /\ Len(y) \in Nat /\ Len(z) \in Nat
    <3>1. x \in Seq(Ops) /\ v \in Seq(Ops) /\ y \in Seq(Ops) /\ z \in Seq(Ops)
      BY <2>1, <2>3
    <3>2. Len(x \o v) = Len(x) + Len(v)
      BY <3>1
    <3>3. \A m \in 1..Len(v) : (x \o v)[Len(x) + m] = v[m]
      BY <3>1
    <3>4. Len(x) \in Nat /\ Len(y) \in Nat /\ Len(z) \in Nat
      BY <3>1
    <3> QED BY <3>2, <3>3, <3>4
  <2>5. ASSUME NEW m \in 1..Len(z) PROVE (x \o v)[Len(x) + Len(y) + m] = z[m]
    <3>1. Len(y) + m \in 1..Len(v) /\ Len(x) + (Len(y) + m) = Len(x) + Len(y) + m
      BY <2>3, <2>4
    <3>2. (x \o v)[Len(x) + (Len(y) + m)] = v[Len(y) + m]
      BY <2>4, <3>1
    <3> QED BY <2>3, <3>1, <3>2
  <2>6. Len(x \o v) = Len(x) + Len(y) + Len(z)
    BY <2>3, <2>4
  <2>7. F[j] = x \o v
    BY <2>1 DEF v
  <2>8. Len(x) \in Nat
    BY <2>4
  <2> QED BY <2>5, <2>6, <2>7, <2>8 DEF x, y, z
<1>8. \A j \in 0..n : Len(F[j]) = GapTo(es, j, len) + Shift(es, j)
  <2> DEFINE S == {j \in 0..n : Len(F[j]) = GapTo(es, j, len) + Shift(es, j)}
  <2>1. 0 \in S
    <3>1. 0 \in 0..n /\ GapFrom(es, 0) = 1
      BY <1>1 DEF GapFrom
    <3> QED BY <1>3, <1>4, <1>6, <3>1
  <2>2. ASSUME NEW j \in 1..n, j - 1 \in S PROVE j \in S
    <3>1. Len(F[j - 1]) = GapTo(es, j - 1, len) + Shift(es, j - 1)
      BY <2>2
    <3>2. Len(g(j)) = GapTo(es, j, len) - GapFrom(es, j) + 1 /\ GapTo(es, j, len) \in Nat
      BY <1>4, <1>5
    <3>3. Shift(es, j - 1) \in Int /\ Shift(es, j) \in Int
          /\ Shift(es, j) = Shift(es, j - 1) + (Len(es[j].ops) - (es[j].to - es[j].from))
      BY <1>5, <1>6
    <3>4. Len(F[j]) = GapTo(es, j, len) + Shift(es, j)
      <4>1. Len(F[j]) = Len(F[j - 1]) + Len(es[j].ops) + Len(g(j))
        BY <1>7
      <4> DEFINE before == Len(F[j - 1])
                 ops == Len(es[j].ops)
                 gap == Len(g(j))
                 until == GapTo(es, j, len)
                 old == Shift(es, j - 1)
                 new == Shift(es, j)
                 all == Len(F[j])
                 from == es[j].from
                 to == es[j].to
      <4>2. /\ all = before + ops + gap /\ gap = until - to + 1
            /\ before = (from - 1) + old
            /\ new = old + (ops - (to - from))
            /\ ops \in Int /\ until \in Int /\ old \in Int /\ from \in Int /\ to \in Int
        <5>1. all = before + ops + gap
          BY <4>1
        <5>2. gap = until - to + 1
          BY <1>5, <3>2
        <5>3. before = (from - 1) + old
          BY <1>5, <3>1
        <5>4. new = old + (ops - (to - from)) /\ old \in Int
          BY <3>3
        <5>5. ops \in Int /\ until \in Int /\ from \in Int /\ to \in Int
          BY <1>5, <3>2
        <5> QED BY <5>1, <5>2, <5>3, <5>4, <5>5
      <4> HIDE DEF before, ops, gap, until, old, new, all, from, to
      <4>3. all = until + new
        BY <4>2
      <4> QED BY <4>3 DEF until, all, new
    <3> QED BY <1>5, <3>4
  <2> HIDE DEF S
  <2>3. \A j \in 0..n : j \in S
    BY <1>1, <2>1, <2>2, CountUp
  <2> QED BY <2>3 DEF S
<1>9. ASSUME NEW j \in 0..n
      PROVE  /\ Len(F[j]) \in Nat /\ Len(d) \in Nat /\ Len(F[j]) <= Len(d)
             /\ \A m \in 1..Len(F[j]) : d[m] = F[j][m]
  <2>1. n \in 0..n /\ j <= n
    BY <1>1
  <2>2. \A k \in 1..n : \E h \in Seq(Ops) : F[k] = F[k - 1] \o h
    <3>1. SUFFICES ASSUME NEW k \in 1..n PROVE \E h \in Seq(Ops) : F[k] = F[k - 1] \o h
      OBVIOUS
    <3>2. es[k].ops \o g(k) \in Seq(Ops)
      BY <1>4, <1>5, ConcatProperties
    <3> QED BY <1>3, <3>2
  <2>3. InFront(F[j], F[n])
    BY <1>1, <1>3, <2>1, <2>2, FrontsKept
  <2>4. F[j] \in Seq(Ops) /\ F[n] \in Seq(Ops)
    BY <1>3, <2>1
  <2> QED BY <1>3, <2>3, <2>4 DEF InFront
<1>10. d \in Seq(Ops) /\ Len(d) = len + Shift(es, n)
  <2>1. n \in 0..n /\ GapTo(es, n, len) = len
    BY <1>1 DEF GapTo
  <2>2. Len(F[n]) = GapTo(es, n, len) + Shift(es, n) /\ F[n] \in Seq(Ops)
    BY <1>3, <1>8, <2>1
  <2> QED BY <1>3, <2>1, <2>2
<1>11. ASSUME NEW j \in 0..n, NEW i \in GapFrom(es, j)..GapTo(es, j, len)
       PROVE  /\ i + Shift(es, j) \in 1..Len(d)
              /\ d[i + Shift(es, j)].gate = c[i].gate
              /\ d[i + Shift(es, j)].qubit = names[j][c[i].qubit]
  <2> DEFINE m == i - GapFrom(es, j) + 1
             k == i + Shift(es, j)
  <2>1. /\ GapFrom(es, j) \in Nat /\ GapTo(es, j, len) \in Nat /\ GapFrom(es, j) >= 1
        /\ Shift(es, j) \in Int
        /\ Len(g(j)) = GapTo(es, j, len) - GapFrom(es, j) + 1
    BY <1>4, <1>6
  <2>2. m \in 1..Len(g(j)) /\ GapFrom(es, j) + m - 1 = i /\ i \in Nat /\ i >= 1
    BY <2>1
  <2>3. k \in 1..Len(F[j]) /\ F[j][k] = g(j)[m]
    <3>1. CASE j = 0
      <4>1. GapFrom(es, 0) = 1 /\ 0 \in 0..n
        BY <1>1 DEF GapFrom
      <4>2. k = i /\ m = i
        BY <1>6, <2>1, <2>2, <3>1, <4>1
      <4> QED BY <1>3, <2>2, <3>1, <4>2
    <3>2. CASE j # 0
      <4>1. j \in 1..n
        BY <3>2
      <4>2. Len(F[j]) = Len(F[j - 1]) + Len(es[j].ops) + Len(g(j)) /\ Len(F[j - 1]) \in Nat
            /\ Len(es[j].ops) \in Nat
        BY <1>5, <1>7, <4>1
      <4>3. Len(F[j]) = GapTo(es, j, len) + Shift(es, j)
        BY <1>8
      <4> DEFINE before == Len(F[j - 1])
                 ops == Len(es[j].ops)
                 gap == Len(g(j))
                 lo == GapFrom(es, j)
                 until == GapTo(es, j, len)
                 shift == Shift(es, j)
      <4>a. /\ before + ops + gap = until + shift /\ gap = until - lo + 1
            /\ Len(F[j]) = before + ops + gap
            /\ before \in Nat /\ ops \in Nat /\ until \in Nat /\ lo \in Nat /\ shift \in Int
            /\ m = i - lo + 1 /\ k = i + shift /\ m \in 1..gap /\ i \in Nat
        BY <2>1, <2>2, <4>2, <4>3
      <4> HIDE DEF before, ops, gap, lo, until, shift, m, k
      <4>b. before + ops + m = k /\ k \in 1..Len(F[j])
        BY <4>a
      <4>4. Len(F[j - 1]) + Len(es[j].ops) + m = k
        BY <4>b DEF before, ops
      <4>5. k \in 1..Len(F[j])
        BY <4>b
      <4> QED BY <1>7, <2>2, <4>1, <4>4, <4>5
    <3> QED BY <3>1, <3>2
  <2>4. d[k] = g(j)[m] /\ k \in 1..Len(d)
    BY <1>9, <2>3
  <2>5. g(j)[m].gate = c[i].gate /\ g(j)[m].qubit = names[j][c[i].qubit]
    BY <1>4, <2>2
  <2> QED BY <2>4, <2>5
<1>12. ASSUME NEW j \in 1..n
       PROVE  /\ Start(es, j) = Len(F[j - 1]) + 1
              /\ Start(es, j) = GapTo(es, j - 1, len) + Shift(es, j - 1) + 1
              /\ Start(es, j) \in Int /\ 1 <= Start(es, j)
  <2>1. /\ Len(F[j - 1]) = GapTo(es, j - 1, len) + Shift(es, j - 1)
        /\ Shift(es, j - 1) \in Int /\ Len(F[j - 1]) \in Nat
    BY <1>5, <1>6, <1>8, <1>9
  <2> QED BY <1>5, <2>1 DEF Start
<1>13. ASSUME NEW b \in 1..Len(d)
       PROVE  \/ \E j \in 1..n : Start(es, j) <= b /\ b < Start(es, j) + Len(es[j].ops)
              \/ \E j \in 0..n, i \in 1..len :
                    i \in GapFrom(es, j)..GapTo(es, j, len) /\ b = i + Shift(es, j)
  <2>1. \/ b <= Len(F[0])
        \/ \E j \in 1..n : Len(F[j - 1]) < b /\ b <= Len(F[j])
    <3>1. b \in 1..Len(F[n])
      BY <1>3
    <3> QED BY <1>1, <1>3, <3>1, PlacedBy
  <2>2. CASE b <= Len(F[0])
    <3>1. 0 \in 0..n /\ GapFrom(es, 0) = 1
      BY <1>1 DEF GapFrom
    <3>2. Len(F[0]) = GapTo(es, 0, len) + Shift(es, 0) /\ Shift(es, 0) = 0
          /\ GapTo(es, 0, len) \in 0..len
      BY <1>4, <1>6, <1>8, <3>1
    <3>3. b \in GapFrom(es, 0)..GapTo(es, 0, len) /\ b \in 1..len /\ b = b + Shift(es, 0)
      BY <1>1, <2>2, <3>1, <3>2
    <3> QED BY <3>1, <3>3
  <2>3. CASE \E j \in 1..n : Len(F[j - 1]) < b /\ b <= Len(F[j])
    <3>1. PICK j \in 1..n : Len(F[j - 1]) < b /\ b <= Len(F[j])
      BY <2>3
    <3>2. Start(es, j) = Len(F[j - 1]) + 1 /\ Len(F[j - 1]) \in Nat /\ Len(es[j].ops) \in Nat
      BY <1>5, <1>7, <1>12
    <3>3. CASE b < Start(es, j) + Len(es[j].ops)
      <4>1. Start(es, j) <= b
        BY <3>1, <3>2
      <4> QED BY <3>3, <4>1
    <3>4. CASE ~ (b < Start(es, j) + Len(es[j].ops))
      <4> DEFINE i == b - Shift(es, j)
      <4>1. j \in 0..n /\ Shift(es, j) \in Int /\ Len(F[j]) = GapTo(es, j, len) + Shift(es, j)
        BY <1>5, <1>6, <1>8
      <4>2. /\ GapFrom(es, j) \in 1..(len + 1) /\ GapTo(es, j, len) \in 0..len
            /\ Len(g(j)) = GapTo(es, j, len) - GapFrom(es, j) + 1
        BY <1>4, <4>1
      <4>3. Len(F[j]) = Len(F[j - 1]) + Len(es[j].ops) + Len(g(j))
        BY <1>7
      <4> DEFINE before == Len(F[j - 1])
                 ops == Len(es[j].ops)
                 gap == Len(g(j))
                 lo == GapFrom(es, j)
                 until == GapTo(es, j, len)
                 shift == Shift(es, j)
      <4>a. /\ before + ops + gap = until + shift /\ gap = until - lo + 1
            /\ before \in Nat /\ ops \in Nat /\ until \in 0..len /\ lo \in 1..(len + 1) /\ shift \in Int
            /\ i = b - shift /\ ~ (b < before + 1 + ops) /\ b <= until + shift
        BY <3>1, <3>2, <3>4, <4>1, <4>2, <4>3
      <4> HIDE DEF before, ops, gap, lo, until, shift, i
      <4>b. i \in lo..until /\ i \in 1..len /\ b = i + shift
        BY <1>1, <4>a
      <4>4. i \in GapFrom(es, j)..GapTo(es, j, len) /\ i \in 1..len /\ b = i + Shift(es, j)
        BY <4>b DEF lo, until, shift
      <4> QED BY <4>1, <4>4
    <3> QED BY <3>3, <3>4
  <2> QED BY <2>1, <2>2, <2>3
<1> QED BY <1>10, <1>11, <1>12, <1>13 DEF n, len

(* What is in a gap, and where it has moved to. *)
LEMMA GapPlace ==
    ASSUME NEW c \in Seq(Ops), NEW es \in Scripts(c), NEW names \in [0..Len(es) -> Renamings],
           NEW d, d = After(c, es, names), NEW j \in 0..Len(es), NEW i \in 1..Len(c),
           i \in GapFrom(es, j)..GapTo(es, j, Len(c))
    PROVE  /\ i + Shift(es, j) \in 1..Len(d)
           /\ d[i + Shift(es, j)].gate = c[i].gate
           /\ d[i + Shift(es, j)].qubit = names[j][c[i].qubit]
<1>1. \A k \in 0..Len(es), q \in 1..Len(c) :
        q \in GapFrom(es, k)..GapTo(es, k, Len(c)) =>
            /\ q + Shift(es, k) \in 1..Len(d)
            /\ d[q + Shift(es, k)].gate = c[q].gate
            /\ d[q + Shift(es, k)].qubit = names[k][c[q].qubit]
  BY ScriptPlaces
<1> QED BY <1>1

(* The greater of two numbers. *)
LEMMA GreaterOfTwo ==
    ASSUME NEW x \in Int, NEW y \in Int
    PROVE  Max({x, y}) \in {x, y} /\ x <= Max({x, y}) /\ y <= Max({x, y})
<1>1. \E z \in {x, y} : \A v \in {x, y} : z >= v
  BY x >= y \/ y >= x
<1>2. Max({x, y}) \in {x, y} /\ \A v \in {x, y} : Max({x, y}) >= v
  BY <1>1 DEF Max
<1> QED BY <1>2

(* The lesser of two numbers. *)
LEMMA LesserOfTwo ==
    ASSUME NEW x \in Int, NEW y \in Int
    PROVE  Min({x, y}) \in {x, y} /\ Min({x, y}) <= x /\ Min({x, y}) <= y
<1>1. \E z \in {x, y} : \A v \in {x, y} : z <= v
  BY x <= y \/ y <= x
<1>2. Min({x, y}) \in {x, y} /\ \A v \in {x, y} : Min({x, y}) <= v
  BY <1>1 DEF Min
<1> QED BY <1>2

(* What map_and_invalidate_ranges leaves out of a replacement's range is   *)
(* further before it than any match reaches, or behind it.                 *)
LEMMA OutsideTouched ==
    ASSUME NEW c \in Seq(Ops), NEW es \in Scripts(c), NEW names \in [0..Len(es) -> Renamings],
           NEW d, d = After(c, es, names), NEW pending, NEW reach \in Nat,
           NEW b \in 1..Len(d), b \notin Mapped(pending, es, Len(c), reach), NEW j \in 1..Len(es)
    PROVE  \/ b < Start(es, j) - reach
           \/ b > Start(es, j) /\ b >= Start(es, j) + Len(es[j].ops)
<1> DEFINE start == Start(es, j)
           ops == Len(es[j].ops)
           end == Max({start, start + ops - 1})
           new == Len(c) + Shift(es, Len(es))
           lo == Max({1, start - reach})
           hi == Min({new, end})
<1>1. /\ d \in Seq(Ops) /\ Len(d) = new /\ start \in Int
  BY ScriptPlaces
<1>2. ops \in Nat
  <2>1. es[j].ops \in Seq(Ops)
    BY ScriptShape
  <2> QED BY <2>1
<1>3. b \notin lo..hi
  <2>1. SUFFICES ASSUME b \in lo..hi PROVE b \in Mapped(pending, es, Len(c), reach)
    OBVIOUS
  <2> DEFINE first(i) == es[i].from + Shift(es, i - 1)
             stop(i) == Max({first(i), first(i) + Len(es[i].ops) - 1})
             range(i) == Max({1, first(i) - reach})..Min({new, stop(i)})
             touched(i) == IF range(i) = {} THEN Max({1, new - reach})..new ELSE range(i)
  <2>2. Mapped(pending, es, Len(c), reach)
          = Moved(pending, es) \cup UNION {touched(i) : i \in 1..Len(es)}
    BY DEF Mapped
  <2>3. range(j) = lo..hi
    BY DEF Start
  <2>4. b \in touched(j)
    BY <2>1, <2>3
  <2> HIDE DEF touched
  <2> QED BY <2>2, <2>4
<1>4. new \in Int /\ b \in Int /\ 1 <= b /\ b <= new
  BY <1>1
<1> HIDE DEF start, ops, new
<1>5. end \in {start, start + ops - 1} /\ start <= end /\ start + ops - 1 <= end
  <2>1. start \in Int /\ start + ops - 1 \in Int
    BY <1>1, <1>2
  <2> QED BY <2>1, GreaterOfTwo
<1> HIDE DEF end
<1>6. lo \in {1, start - reach} /\ hi \in {new, end}
  BY <1>1, <1>2, <1>4, <1>5, GreaterOfTwo, LesserOfTwo
<1> HIDE DEF lo, hi
<1>7. b < start - reach \/ (b > start /\ b >= start + ops)
  BY <1>1, <1>2, <1>3, <1>4, <1>5, <1>6
<1> QED BY <1>7 DEF start, ops

(* The replacements before a gap. *)
LEMMA ReplacedBefore ==
    ASSUME NEW c \in Seq(Ops), NEW es \in Scripts(c), NEW j \in 0..Len(es),
           NEW i \in GapFrom(es, j)..GapTo(es, j, Len(c))
    PROVE  Cardinality({k \in 1..Len(es) : es[k].to <= i}) = j
<1> DEFINE n == Len(es)
           S == {k \in 1..n : es[k].to <= i}
<1>1. n \in Nat /\ j \in Nat /\ j <= n
  BY ScriptShape
<1>2. \A k \in 1..n : es[k].to <= i <=> k <= j
  BY GapsClean
<1>3. S = 1..j
  <2> HIDE DEF n
  <2> QED BY <1>1, <1>2
<1>4. Cardinality(1..j) = j
  BY <1>1, FS_Interval
<1> QED BY <1>3, <1>4, Zenon

(* Where an anchor in a gap is afterwards. *)
LEMMA MovedInGap ==
    ASSUME NEW c \in Seq(Ops), NEW es \in Scripts(c), NEW j \in 0..Len(es),
           NEW i \in GapFrom(es, j)..GapTo(es, j, Len(c)), NEW pending, i \in pending
    PROVE  i + Shift(es, j) \in Moved(pending, es)
<1> DEFINE S == {k \in 1..Len(es) : es[k].to <= i}
<1>1. \A k \in 1..Len(es) : i \notin es[k].from..(es[k].to - 1)
  BY GapsClean
<1>2. Cardinality(S) = j
  BY ReplacedBefore
<1>3. i + Shift(es, Cardinality(S)) \in Moved(pending, es)
  BY <1>1 DEF Moved
<1> QED BY <1>2, <1>3, Zenon

(* Whatever an edit script does: an anchor outside what it makes pending   *)
(* is clean if those outside the pending anchors were.                     *)
LEMMA EditedClean ==
    ASSUME NEW c \in Seq(Ops), NEW es \in Scripts(c), NEW names \in [0..Len(es) -> Renamings],
           NEW d, d = After(c, es, names), NEW cfg \in Configs, NEW pending,
           \A a \in (1..Len(c)) \ pending : Clean(c, cfg, a),
           NEW b \in (1..Len(d)) \ Mapped(pending, es, Len(c), Reach(cfg))
    PROVE  Clean(d, cfg, b)
<1> DEFINE n == Len(es)
           len == Len(c)
<1>1. n \in Nat /\ len \in Nat /\ Reach(cfg) \in Nat
  BY ScriptShape, ReachBounds
<1>2. d \in Seq(Ops) /\ Len(d) = len + Shift(es, n) /\ b \in 1..Len(d)
  BY ScriptPlaces
<1>3. SUFFICES ASSUME NEW r, NEW at, Fires(d, cfg, r, b, at) PROVE FALSE
  BY <1>2, CleanMeans
<1> DEFINE last == at[Len(r.source)]
<1>4. last \in b..Len(d) /\ last <= b + Reach(cfg)
  BY <1>2, <1>3, FiresWithin
<1>5. ASSUME NEW j \in 1..n
      PROVE  /\ \/ b < Start(es, j) - Reach(cfg)
                \/ b > Start(es, j) /\ b >= Start(es, j) + Len(es[j].ops)
             /\ Start(es, j) \in Int
             /\ Start(es, j) = GapTo(es, j - 1, len) + Shift(es, j - 1) + 1
             /\ Len(es[j].ops) \in Nat
  <2>1. es[j].ops \in Seq(Ops)
    BY ScriptShape
  <2>2. Len(es[j].ops) \in Nat
    BY <2>1
  <2>3. Start(es, j) \in Int /\ Start(es, j) = GapTo(es, j - 1, len) + Shift(es, j - 1) + 1
    BY ScriptPlaces
  <2>4. \/ b < Start(es, j) - Reach(cfg)
        \/ b > Start(es, j) /\ b >= Start(es, j) + Len(es[j].ops)
    BY <1>1, <1>2, OutsideTouched
  <2> QED BY <2>2, <2>3, <2>4
<1>6. ~ \E j \in 1..n : Start(es, j) <= b /\ b < Start(es, j) + Len(es[j].ops)
  <2>1. SUFFICES ASSUME NEW j \in 1..n PROVE ~ (Start(es, j) <= b /\ b < Start(es, j) + Len(es[j].ops))
    OBVIOUS
  <2> DEFINE start == Start(es, j)
             ops == Len(es[j].ops)
  <2>2. /\ b < start - Reach(cfg) \/ (b > start /\ b >= start + ops)
        /\ start \in Int /\ ops \in Nat
    BY <1>5
  <2> HIDE DEF start, ops
  <2>3. ~ (start <= b /\ b < start + ops)
    BY <1>1, <1>2, <2>2
  <2> QED BY <2>3 DEF start, ops
<1>7. PICK j \in 0..n : \E i \in 1..len :
        i \in GapFrom(es, j)..GapTo(es, j, len) /\ b = i + Shift(es, j)
  <2>1. \/ \E j \in 1..n : Start(es, j) <= b /\ b < Start(es, j) + Len(es[j].ops)
        \/ \E j \in 0..n, i \in 1..len :
             i \in GapFrom(es, j)..GapTo(es, j, len) /\ b = i + Shift(es, j)
    BY <1>2, ScriptPlaces
  <2> QED BY <1>6, <2>1
<1>8. PICK i \in 1..len : i \in GapFrom(es, j)..GapTo(es, j, len) /\ b = i + Shift(es, j)
  BY <1>7
<1>9. i \notin pending
  <2>1. b \notin Moved(pending, es)
    BY DEF Mapped
  <2> QED BY <1>8, <2>1, MovedInGap
<1>10. /\ Shift(es, j) \in Int
       /\ GapFrom(es, j) \in Nat /\ GapTo(es, j, len) \in 0..len /\ GapFrom(es, j) >= 1
  <2>1. GapFrom(es, j) \in 1..(len + 1) /\ GapTo(es, j, len) \in 0..len
    BY GapShape
  <2>2. Shift(es, j) \in Int
    BY ShiftSums
  <2> QED BY <1>1, <2>1, <2>2
<1> DEFINE s == Shift(es, j)
           lo == GapFrom(es, j)
           until == GapTo(es, j, len)
<1>11. ASSUME NEW k \in b..last PROVE k - s \in lo..until /\ k - s \in 1..len /\ k \in Int
  <2>1. /\ k \in Int /\ b <= k /\ k <= last /\ last \in Int /\ last <= Len(d)
        /\ b = i + s /\ i \in lo..until /\ i \in Int
    BY <1>2, <1>4, <1>8
  <2>2. k <= until + s
    <3>1. CASE j = n
      <4>1. until = len /\ Len(d) = len + s
        BY <1>2, <3>1 DEF GapTo
      <4>2. k \in Int /\ last \in Int /\ k <= last /\ last <= len + s
        BY <2>1, <4>1
      <4>3. s \in Int /\ len \in Int
        BY <1>1, <1>10
      <4> HIDE DEF s, until, len
      <4> QED BY <4>1, <4>2, <4>3
    <3>2. CASE j # n
      <4>1. j + 1 \in 1..n /\ (j + 1) - 1 = j
        BY <1>1, <3>2
      <4> DEFINE start == Start(es, j + 1)
                 ops == Len(es[j + 1].ops)
      <4>2. /\ b < start - Reach(cfg) \/ (b > start /\ b >= start + ops)
            /\ start = until + s + 1
        BY <1>5, <4>1
      <4>3. s \in Int /\ until \in Int /\ i \in Int /\ i <= until
        BY <1>1, <1>10, <2>1
      <4>4. last <= b + Reach(cfg)
        BY <1>4
      <4> HIDE DEF start, ops, s, lo, until, last
      <4>5. b < start
        BY <2>1, <4>2, <4>3
      <4>6. b < start - Reach(cfg)
        BY <1>1, <2>1, <4>2, <4>3, <4>5
      <4> QED BY <1>1, <2>1, <4>2, <4>3, <4>4, <4>6
    <3> QED BY <3>1, <3>2
  <2> HIDE DEF s, lo, until, last
  <2> QED BY <1>1, <1>10, <2>1, <2>2 DEF s, lo, until
<1>12. \A m \in 1..len : m \in GapFrom(es, j)..GapTo(es, j, len) =>
         /\ d[m + Shift(es, j)].gate = c[m].gate
         /\ d[m + Shift(es, j)].qubit = names[j][c[m].qubit]
  <2>1. SUFFICES ASSUME NEW m \in 1..Len(c), m \in GapFrom(es, j)..GapTo(es, j, Len(c))
                 PROVE  /\ d[m + Shift(es, j)].gate = c[m].gate
                        /\ d[m + Shift(es, j)].qubit = names[j][c[m].qubit]
    OBVIOUS
  <2>2. j \in 0..Len(es)
    BY <1>8
  <2> HIDE DEF n, len, s, lo, until, last
  <2> QED BY <2>1, <2>2, GapPlace
<1>13. ASSUME NEW k \in b..last
       PROVE  /\ k - s \in 1..len
              /\ c[k - s].gate = d[k].gate
              /\ c[k - s].qubit = c[i].qubit <=> d[k].qubit = d[b].qubit
  <2> DEFINE m == k - s
  <2>1. m \in 1..len /\ m \in lo..until /\ m + s = k
    BY <1>10, <1>11
  <2>2. d[k].gate = c[m].gate /\ d[k].qubit = names[j][c[m].qubit]
    BY <1>12, <2>1
  <2>3. d[b].qubit = names[j][c[i].qubit]
    BY <1>8, <1>12
  <2>4. c[m].qubit \in Qubits /\ c[i].qubit \in Qubits
    <3>1. c[m] \in Ops /\ c[i] \in Ops
      BY <2>1
    <3> QED BY <3>1 DEF Ops
  <2>5. \A p, q \in Qubits : p # q => names[j][p] # names[j][q]
    BY DEF Renamings
  <2> HIDE DEF m
  <2>6. c[m].qubit = c[i].qubit <=> d[k].qubit = d[b].qubit
    BY <2>2, <2>3, <2>4, <2>5
  <2> QED BY <2>1, <2>2, <2>6 DEF m
<1>14. s \in Int /\ s = b - i /\ i \in 1..Len(c)
  BY <1>8, <1>10
<1>15. Fires(c, cfg, r, i, Earlier(at, Len(r.source), s))
  <2>1. \A k \in b..at[Len(r.source)] :
          /\ k - s \in 1..Len(c)
          /\ c[k - s].gate = d[k].gate
          /\ c[k - s].qubit = c[i].qubit <=> d[k].qubit = d[b].qubit
    BY <1>13
  <2>2. Fires(d, cfg, r, b, at)
    BY <1>3
  <2>3. s \in Int /\ s = b - i /\ i \in 1..Len(c) /\ d \in Seq(Ops) /\ b \in 1..Len(d)
    BY <1>2, <1>14
  <2> HIDE DEF s, len, n
  <2> QED BY <2>1, <2>2, <2>3, FiresShifted
<1>16. Clean(c, cfg, i)
  BY <1>9
<1> QED BY <1>15, <1>16, CleanMeans

-----------------------------------------------------------------------------
(* The patched circuit *)

\* A sum of which one weight changes.
LEMMA SumChangesAt ==
    ASSUME NEW w, NEW v, NEW S, IsFiniteSet(S), NEW x \in S,
           \A y \in S : w[y] \in Int, v[x] \in Int,
           \A y \in S : y # x => v[y] = w[y]
    PROVE  SumFunctionOnSet(v, S) = SumFunctionOnSet(w, S) + (v[x] - w[x])
<1> DEFINE R == S \ {x}
           total(u, T) == SumFunctionOnSet(u, T)
<1>1. \A y \in S : v[y] \in Int
  OBVIOUS
<1>2. IsFiniteSet(R) /\ R \in SUBSET S
  BY FS_Subset
<1>3. total(w, S) = w[x] + total(w, R)
  BY SumTakesOut
<1>4. total(v, S) = v[x] + total(v, R)
  BY <1>1, SumTakesOut
<1>5. total(v, R) = total(w, R)
  <2>1. \A y \in R : v[y] = w[y]
    OBVIOUS
  <2> HIDE DEF R
  <2> QED BY <1>2, <2>1, SumCongruent
<1>6. total(w, R) \in Int
  <2>1. \A y \in R : w[y] \in Int
    OBVIOUS
  <2> HIDE DEF R
  <2> QED BY <1>2, <2>1, SumIsInteger
<1> DEFINE a == total(w, R)
           b == total(v, S)
           e == total(w, S)
<1>7. e = w[x] + a /\ b = v[x] + a /\ a \in Int /\ w[x] \in Int /\ v[x] \in Int
  <2> HIDE DEF total, R
  <2> QED BY <1>3, <1>4, <1>5, <1>6
<1> HIDE DEF a, b, e
<1>8. b = e + (v[x] - w[x])
  BY <1>7
<1> QED BY <1>8 DEF b, e

\* A sum of nothing.
LEMMA SumOfZeros ==
    ASSUME NEW w, NEW S, IsFiniteSet(S), \A x \in S : w[x] = 0
    PROVE  SumFunctionOnSet(w, S) = 0
<1> DEFINE Bad == {T \in SUBSET S : SumFunctionOnSet(w, T) # 0}
<1>1. SUFFICES ASSUME Bad # {} PROVE FALSE
  OBVIOUS
<1>2. PICK T \in Bad : \A U \in Bad : Cardinality(T) <= Cardinality(U)
  <2> HIDE DEF Bad
  <2>1. Bad \in SUBSET SUBSET S
    BY DEF Bad
  <2> QED BY <1>1, <2>1, LeastPart
<1>3. T # {}
  BY <1>2, SumEmpty
<1>4. IsFiniteSet(T) /\ T \subseteq S
  BY <1>2, FS_Subset
<1> DEFINE x == Pick(T)
           R == T \ {x}
<1>5. x \in T /\ ~ (Cardinality(T) <= Cardinality(R))
  BY <1>3, <1>4, Picking
<1> HIDE DEF x
<1>6. SumFunctionOnSet(w, R) = 0
  BY <1>2, <1>4, <1>5
<1>7. SumFunctionOnSet(w, T) = w[x] + SumFunctionOnSet(w, R)
  BY <1>3, <1>4, SumPicks DEF x
<1> QED BY <1>2, <1>4, <1>5, <1>6, <1>7

\* A sum over what a set is renamed to.
LEMMA SumRenamed ==
    ASSUME NEW w, NEW v, NEW S, IsFiniteSet(S), NEW f,
           \A x, y \in S : f[x] = f[y] => x = y,
           \A x \in S : w[x] \in Int /\ v[f[x]] = w[x]
    PROVE  SumFunctionOnSet(v, {f[x] : x \in S}) = SumFunctionOnSet(w, S)
<1> DEFINE image(T) == {f[x] : x \in T}
           Bad == {T \in SUBSET S : ~ (IsFiniteSet(image(T))
                                       /\ SumFunctionOnSet(v, image(T)) = SumFunctionOnSet(w, T))}
<1>1. SUFFICES ASSUME Bad # {} PROVE FALSE
  <2>1. S \in SUBSET S
    OBVIOUS
  <2> QED BY <2>1
<1>2. PICK T \in Bad : \A U \in Bad : Cardinality(T) <= Cardinality(U)
  <2> HIDE DEF Bad
  <2>1. Bad \in SUBSET SUBSET S
    BY DEF Bad
  <2> QED BY <1>1, <2>1, LeastPart
<1>3. T # {}
  <2>1. SUFFICES ASSUME T = {} PROVE FALSE
    OBVIOUS
  <2>2. image(T) = {}
    BY <2>1
  <2>3. IsFiniteSet(image(T)) /\ SumFunctionOnSet(v, image(T)) = 0 /\ SumFunctionOnSet(w, T) = 0
    BY <2>1, <2>2, SumEmpty, FS_EmptySet, Zenon
  <2> QED BY <1>2, <2>3
<1>4. IsFiniteSet(T) /\ T \subseteq S
  BY <1>2, FS_Subset
<1> DEFINE x == Pick(T)
           R == T \ {x}
<1>5. x \in T /\ ~ (Cardinality(T) <= Cardinality(R))
  BY <1>3, <1>4, Picking
<1> HIDE DEF x
<1>6. IsFiniteSet(image(R)) /\ SumFunctionOnSet(v, image(R)) = SumFunctionOnSet(w, R)
  <2>1. R \notin Bad /\ R \in SUBSET S
    BY <1>2, <1>4, <1>5
  <2> QED BY <2>1
<1>7. SumFunctionOnSet(w, T) = w[x] + SumFunctionOnSet(w, R)
  BY <1>3, <1>4, SumPicks DEF x
<1>8. image(T) = image(R) \cup {f[x]} /\ image(R) = image(T) \ {f[x]}
  BY <1>4, <1>5
<1>9. IsFiniteSet(image(T))
  <2> DEFINE I == image(R)
             J == image(T)
             y == f[x]
  <2>1. IsFiniteSet(I) /\ J = I \cup {y}
    BY <1>6, <1>8
  <2> HIDE DEF I, J, y
  <2>2. IsFiniteSet(J)
    BY <2>1, FS_AddElement
  <2> QED BY <2>2 DEF J
<1>10. SumFunctionOnSet(v, image(T)) = v[f[x]] + SumFunctionOnSet(v, image(R))
  <2>1. f[x] \in image(T) /\ \A y \in image(T) : v[y] \in Int
    BY <1>4, <1>5
  <2> DEFINE I == image(R)
             J == image(T)
             z == f[x]
  <2>2. IsFiniteSet(J) /\ z \in J /\ I = J \ {z} /\ \A y \in J : v[y] \in Int
    BY <1>8, <1>9, <2>1
  <2> HIDE DEF I, J, z
  <2>3. SumFunctionOnSet(v, J) = v[z] + SumFunctionOnSet(v, J \ {z})
    BY <2>2, SumTakesOut
  <2>4. SumFunctionOnSet(v, J) = v[z] + SumFunctionOnSet(v, I)
    BY <2>2, <2>3, Zenon
  <2> QED BY <2>4 DEF I, J, z
<1>11. v[f[x]] = w[x]
  BY <1>4, <1>5
<1>12. SumFunctionOnSet(v, image(T)) = SumFunctionOnSet(w, T)
  <2> HIDE DEF image
  <2> QED BY <1>6, <1>7, <1>10, <1>11, Zenon
<1> QED BY <1>2, <1>9, <1>12

(* Patches whose spans are disjoint parts of 1..len. *)
Apart(P, len) ==
    /\ \A p \in P :
        /\ p.first \in 1..len /\ p.last \in p.first..len
        /\ p.matched \subseteq p.first..p.last /\ p.first \in p.matched
        /\ p.output \in Seq(Ops)
        /\ DOMAIN p = {"first", "last", "matched", "output"}
    /\ \A p, q \in P : p # q => p.last < q.first \/ q.last < p.first

(* By how much each of them lengthens the circuit. *)
Weights(P) == [p \in P |-> Len(p.output) - Cardinality(p.matched)]

(* Disjoint spans are finitely many, of finitely many positions. *)
LEMMA ApartSizes ==
    ASSUME NEW len \in Nat, NEW P, Apart(P, len)
    PROVE  /\ IsFiniteSet(P)
           /\ \A p \in P :
                /\ IsFiniteSet(p.matched) /\ Cardinality(p.matched) \in Nat
                /\ Len(p.output) \in Nat
                /\ Weights(P)[p] = Len(p.output) - Cardinality(p.matched)
                /\ Weights(P)[p] \in Int
<1>1. IsFiniteSet(P)
  <2> DEFINE f == [p \in P |-> p.first]
  <2>1. f \in [P -> 1..len]
    BY DEF Apart
  <2>2. \A p, q \in P : f[p] = f[q] => p = q
    <3>1. SUFFICES ASSUME NEW p \in P, NEW q \in P, p.first = q.first, p # q PROVE FALSE
      OBVIOUS
    <3>2. p.last < q.first \/ q.last < p.first
      BY <3>1 DEF Apart
    <3>3. p.first \in 1..len /\ p.last \in p.first..len /\ q.last \in q.first..len
      BY DEF Apart
    <3> QED BY <3>1, <3>2, <3>3
  <2>3. f \in Injection(P, 1..len)
    <3> HIDE DEF f
    <3> QED BY <2>1, <2>2 DEF Injection, IsInjective
  <2>4. IsFiniteSet(1..len)
    BY FS_Interval
  <2> QED BY <2>3, <2>4, FS_Injection
<1>2. ASSUME NEW p \in P
      PROVE  /\ IsFiniteSet(p.matched) /\ Cardinality(p.matched) \in Nat
             /\ Len(p.output) \in Nat
  <2>1. /\ p.first \in 1..len /\ p.last \in p.first..len
        /\ p.matched \subseteq p.first..p.last /\ p.output \in Seq(Ops)
    BY DEF Apart
  <2>2. p.matched \in SUBSET (1..len)
    BY <2>1
  <2>3. IsFiniteSet(p.matched) /\ Cardinality(p.matched) \in Nat
    BY <2>2, SizeIsNatural
  <2> QED BY <2>1, <2>3
<1> QED BY <1>1, <1>2 DEF Weights

(* Growth is a sum of weights. *)
LEMMA GrowthSums ==
    ASSUME NEW len \in Nat, NEW P, Apart(P, len), NEW Q \in SUBSET P
    PROVE  /\ Growth(Q) = SumFunctionOnSet(Weights(P), Q)
           /\ Growth(Q) \in Int
<1> DEFINE w == [p \in Q |-> Len(p.output) - Cardinality(p.matched)]
<1>1. Growth(Q) = SumFunctionOnSet(w, Q)
  BY DEF Growth, SumFunction
<1>2. IsFiniteSet(Q) /\ \A p \in Q : Weights(P)[p] \in Int
  BY ApartSizes, FS_Subset
<1>3. \A p \in Q : w[p] = Weights(P)[p]
  BY DEF Weights
<1> HIDE DEF w
<1>4. SumFunctionOnSet(w, Q) = SumFunctionOnSet(Weights(P), Q)
  BY <1>2, <1>3, SumCongruent
<1>5. SumFunctionOnSet(Weights(P), Q) \in Int
  BY <1>2, SumIsInteger
<1> QED BY <1>1, <1>4, <1>5

(* What patch_application_plan puts out for one place of the old circuit. *)
Inserted(P, i) == IF \E p \in P : p.first = i THEN (CHOOSE p \in P : p.first = i).output ELSE <<>>
Unmatched(c, P, i) == IF \E p \in P : i \in p.matched THEN <<>> ELSE <<c[i]>>

(* The patched circuit, built place by place. *)
PatchJoins(f, c, P, d) ==
    /\ f \in [0..Len(c) -> Seq(Ops)]
    /\ f[0] = <<>> /\ f[Len(c)] = d
    /\ \A i \in 1..Len(c) : f[i] = f[i - 1] \o (Inserted(P, i) \o Unmatched(c, P, i))

(* Each piece is a sequence of operations. *)
LEMMA PatchPieces ==
    ASSUME NEW c \in Seq(Ops), NEW P, Apart(P, Len(c)), NEW i \in 1..Len(c)
    PROVE  Inserted(P, i) \in Seq(Ops) /\ Unmatched(c, P, i) \in Seq(Ops)
<1>1. Inserted(P, i) \in Seq(Ops)
  <2>1. CASE \E p \in P : p.first = i
    <3>1. (CHOOSE p \in P : p.first = i) \in P
      BY <2>1
    <3> QED BY <2>1, <3>1 DEF Inserted, Apart
  <2>2. CASE ~ \E p \in P : p.first = i
    BY <2>2 DEF Inserted
  <2> QED BY <2>1, <2>2
<1>2. Unmatched(c, P, i) \in Seq(Ops)
  <2>1. <<c[i]>> \in Seq(Ops) /\ <<>> \in Seq(Ops)
    OBVIOUS
  <2> QED BY <2>1 DEF Unmatched
<1> QED BY <1>1, <1>2

(* The patched circuit is built that way. *)
LEMMA PatchedJoins ==
    ASSUME NEW c \in Seq(Ops), NEW P, Apart(P, Len(c)),
           NEW d, d = Patched(c, P, [p \in P |-> p.output])
    PROVE  \E f : PatchJoins(f, c, P, d)
<1> DEFINE n == Len(c)
           piece == [i \in 1..n |-> Inserted(P, i) \o Unmatched(c, P, i)]
<1>1. n \in Nat
  OBVIOUS
<1>2. \A i \in 1..n : Inserted(P, i) \o Unmatched(c, P, i) \in Seq(Ops)
  <2>1. SUFFICES ASSUME NEW i \in 1..n PROVE Inserted(P, i) \o Unmatched(c, P, i) \in Seq(Ops)
    OBVIOUS
  <2> DEFINE x == Inserted(P, i)
             y == Unmatched(c, P, i)
  <2>2. x \in Seq(Ops) /\ y \in Seq(Ops)
    BY PatchPieces
  <2> HIDE DEF x, y
  <2>3. x \o y \in Seq(Ops)
    BY <2>2
  <2> QED BY <2>3 DEF x, y
<1>3. piece \in [1..n -> Seq(Ops)]
  BY <1>2
<1>4. d = FlattenSeq(piece)
  <2> DEFINE given(i) == IF \E p \in P : p.first = i
                         THEN [p \in P |-> p.output][CHOOSE p \in P : p.first = i] ELSE <<>>
  <2>1. \A i \in 1..n : given(i) = Inserted(P, i)
    BY DEF Inserted
  <2>2. d = FlattenSeq([i \in 1..n |-> given(i) \o Unmatched(c, P, i)])
    BY DEF Patched, Unmatched
  <2>3. [i \in 1..n |-> given(i) \o Unmatched(c, P, i)] = piece
    <3> HIDE DEF given
    <3> QED BY <2>1
  <2> QED BY <2>2, <2>3, Zenon
<1>5. \A i \in 1..n : piece[i] = Inserted(P, i) \o Unmatched(c, P, i)
  OBVIOUS
<1> HIDE DEF piece, n
<1>6. PICK f \in [0..n -> Seq(Ops)] : Joins(f, piece, n)
  BY <1>1, <1>3, JoinsExists
<1>7. FlattenSeq(piece) = f[n]
  BY <1>1, <1>3, <1>6, FlattenJoins
<1>8. f[0] = <<>> /\ \A i \in 1..n : f[i] = f[i - 1] \o piece[i]
  BY <1>6 DEF Joins
<1>9. \A i \in 1..n : f[i] = f[i - 1] \o (Inserted(P, i) \o Unmatched(c, P, i))
  BY <1>5, <1>8
<1>10. f[n] = d
  BY <1>4, <1>7
<1> QED BY <1>6, <1>8, <1>9, <1>10 DEF PatchJoins, n

(* No patch spans the place. *)
Outside(P, i) == \A p \in P : i \notin p.first..p.last

PlaceByPlace(f, c, P) ==
    /\ Len(f[0]) = 0
    /\ \A i \in 0..Len(c) : f[i] \in Seq(Ops) /\ Len(f[i]) \in Nat
    /\ \A i \in 1..Len(c) : Outside(P, i) =>
         Len(f[i]) = Len(f[i - 1]) + 1 /\ f[i][Len(f[i])] = c[i]
    /\ \A i \in 1..Len(c), p \in P : i \in p.first..p.last =>
         Len(f[i]) = Len(f[i - 1]) + (IF i = p.first THEN Len(p.output) ELSE 0)
                                   + (IF i \in p.matched THEN 0 ELSE 1)

(* What each place adds to it. *)
LEMMA PatchSteps ==
    ASSUME NEW c \in Seq(Ops), NEW P, Apart(P, Len(c)), NEW d, NEW f, PatchJoins(f, c, P, d)
    PROVE  PlaceByPlace(f, c, P)
<1> DEFINE n == Len(c)
<1>1. f \in [0..n -> Seq(Ops)] /\ f[0] = <<>>
  BY DEF PatchJoins
<1>2. \A i \in 0..n : f[i] \in Seq(Ops) /\ Len(f[i]) \in Nat
  BY <1>1
<1>3. ASSUME NEW i \in 1..n
      PROVE  /\ f[i] = f[i - 1] \o (Inserted(P, i) \o Unmatched(c, P, i))
             /\ f[i - 1] \in Seq(Ops) /\ Len(f[i - 1]) \in Nat
             /\ Inserted(P, i) \in Seq(Ops) /\ Unmatched(c, P, i) \in Seq(Ops)
             /\ Len(f[i]) = Len(f[i - 1]) + Len(Inserted(P, i)) + Len(Unmatched(c, P, i))
  <2>1. f[i] = f[i - 1] \o (Inserted(P, i) \o Unmatched(c, P, i))
    BY DEF PatchJoins
  <2>2. f[i - 1] \in Seq(Ops) /\ Len(f[i - 1]) \in Nat
    <3>1. i - 1 \in 0..n
      OBVIOUS
    <3> QED BY <1>2, <3>1
  <2> DEFINE x == f[i - 1]
             y == Inserted(P, i)
             z == Unmatched(c, P, i)
  <2>3. x \in Seq(Ops) /\ y \in Seq(Ops) /\ z \in Seq(Ops)
    BY <2>2, PatchPieces
  <2> HIDE DEF x, y, z
  <2>4. y \o z \in Seq(Ops) /\ Len(y \o z) = Len(y) + Len(z) /\ Len(y) \in Nat /\ Len(z) \in Nat
    BY <2>3
  <2> DEFINE v == y \o z
  <2> HIDE DEF v
  <2>5. v \in Seq(Ops) /\ Len(v) = Len(y) + Len(z)
    BY <2>4 DEF v
  <2>a. x \in Seq(Ops) /\ v \in Seq(Ops)
    BY <2>3, <2>5
  <2>6. Len(x \o v) = Len(x) + Len(v) /\ Len(x) \in Nat
    BY <2>a
  <2>7. Len(x \o v) = Len(x) + Len(y) + Len(z)
    BY <2>4, <2>5, <2>6
  <2>8. Len(f[i]) = Len(x) + Len(y) + Len(z)
    BY <2>1, <2>7 DEF v, x, y, z
  <2> QED BY <2>1, <2>2, <2>3, <2>8 DEF x, y, z
<1>4. ASSUME NEW i \in 1..n, Outside(P, i)
      PROVE  Len(f[i]) = Len(f[i - 1]) + 1 /\ f[i][Len(f[i])] = c[i]
  <2>1. ASSUME NEW p \in P PROVE p.first # i /\ i \notin p.matched
    <3>1. p.first \in p.first..p.last /\ p.matched \subseteq p.first..p.last
      BY DEF Apart
    <3> QED BY <1>4, <3>1 DEF Outside
  <2>2. Inserted(P, i) = <<>> /\ Unmatched(c, P, i) = <<c[i]>>
    BY <2>1 DEF Inserted, Unmatched
  <2> DEFINE x == f[i - 1]
             o == c[i]
  <2>3. x \in Seq(Ops) /\ o \in Ops /\ f[i] = x \o (<<>> \o <<o>>)
    <3>1. f[i] = x \o (Inserted(P, i) \o Unmatched(c, P, i)) /\ x \in Seq(Ops)
      BY <1>3
    <3>2. f[i] = x \o (<<>> \o <<o>>)
      BY <2>2, <3>1, Zenon
    <3>3. o \in Ops
      OBVIOUS
    <3> QED BY <3>1, <3>2, <3>3
  <2> HIDE DEF x, o
  <2>4. <<>> \o <<o>> = <<o>>
    BY <2>3
  <2>5. Len(x \o <<o>>) = Len(x) + 1 /\ (x \o <<o>>)[Len(x) + 1] = o
    BY <2>3
  <2>6. f[i] = x \o <<o>>
    BY <2>3, <2>4, Zenon
  <2> QED BY <2>5, <2>6 DEF x, o
<1>5. ASSUME NEW i \in 1..n, NEW p \in P, i \in p.first..p.last
      PROVE  Len(f[i]) = Len(f[i - 1]) + (IF i = p.first THEN Len(p.output) ELSE 0)
                                       + (IF i \in p.matched THEN 0 ELSE 1)
  <2>1. ASSUME NEW q \in P, i \in q.first..q.last PROVE q = p
    <3>1. SUFFICES ASSUME q # p PROVE FALSE
      OBVIOUS
    <3>2. p.last < q.first \/ q.last < p.first
      BY <3>1 DEF Apart
    <3>3. p.first \in 1..n /\ q.first \in 1..n /\ p.last \in p.first..n /\ q.last \in q.first..n
      BY DEF Apart
    <3> QED BY <1>5, <2>1, <3>2, <3>3
  <2>2. ASSUME NEW q \in P PROVE q.first \in q.first..q.last /\ q.matched \subseteq q.first..q.last
    BY DEF Apart
  <2>3. Len(Inserted(P, i)) = IF i = p.first THEN Len(p.output) ELSE 0
    <3>1. CASE i = p.first
      <4>1. (CHOOSE q \in P : q.first = i) = p
        <5>1. \A q \in P : q.first = i => q = p
          BY <2>1, <2>2
        <5> QED BY <3>1, <5>1
      <4> QED BY <3>1, <4>1 DEF Inserted
    <3>2. CASE i # p.first
      <4>1. ~ \E q \in P : q.first = i
        BY <2>1, <2>2, <3>2
      <4>2. Inserted(P, i) = <<>>
        BY <4>1 DEF Inserted
      <4> QED BY <3>2, <4>2
    <3> QED BY <3>1, <3>2
  <2>4. Len(Unmatched(c, P, i)) = IF i \in p.matched THEN 0 ELSE 1
    <3>1. (\E q \in P : i \in q.matched) <=> i \in p.matched
      BY <2>1, <2>2
    <3>2. CASE i \in p.matched
      <4>1. Unmatched(c, P, i) = <<>>
        BY <3>1, <3>2 DEF Unmatched
      <4> QED BY <3>2, <4>1
    <3>3. CASE i \notin p.matched
      <4>1. Unmatched(c, P, i) = <<c[i]>>
        BY <3>1, <3>3 DEF Unmatched
      <4>2. Len(Unmatched(c, P, i)) = 1
        BY <4>1
      <4> QED BY <3>3, <4>2
    <3> QED BY <3>2, <3>3
  <2> QED BY <1>3, <2>3, <2>4, Zenon
<1>6. Len(f[0]) = 0
  BY <1>1
<1> QED BY <1>2, <1>4, <1>5, <1>6 DEF PlaceByPlace

(* What is built is kept, and every place of it comes of one before. *)
LEMMA PatchFronts ==
    ASSUME NEW c \in Seq(Ops), NEW P, Apart(P, Len(c)), NEW d, NEW f, PatchJoins(f, c, P, d)
    PROVE  /\ \A i, j \in 0..Len(c) : i <= j => InFront(f[i], f[j])
           /\ \A b \in 1..Len(d) : \E i \in 1..Len(c) : Len(f[i - 1]) < b /\ b <= Len(f[i])
<1> DEFINE n == Len(c)
<1>1. n \in Nat /\ f \in [0..n -> Seq(Ops)] /\ f[0] = <<>> /\ f[n] = d
  BY DEF PatchJoins
<1>2. \A k \in 1..n : \E g \in Seq(Ops) : f[k] = f[k - 1] \o g
  <2>1. SUFFICES ASSUME NEW k \in 1..n PROVE \E g \in Seq(Ops) : f[k] = f[k - 1] \o g
    OBVIOUS
  <2>2. Inserted(P, k) \in Seq(Ops) /\ Unmatched(c, P, k) \in Seq(Ops)
    BY PatchPieces
  <2> DEFINE x == Inserted(P, k)
             y == Unmatched(c, P, k)
  <2> HIDE DEF x, y
  <2>3. x \o y \in Seq(Ops)
    BY <2>2 DEF x, y
  <2>4. f[k] = f[k - 1] \o (x \o y)
    BY DEF PatchJoins, x, y
  <2> QED BY <2>3, <2>4
<1>3. ASSUME NEW i \in 0..n, NEW j \in 0..n, i <= j PROVE InFront(f[i], f[j])
  <2> HIDE DEF n
  <2> QED BY <1>1, <1>2, <1>3, FrontsKept
<1>4. ASSUME NEW b \in 1..Len(d) PROVE \E i \in 1..n : Len(f[i - 1]) < b /\ b <= Len(f[i])
  <2>1. b \in 1..Len(f[n])
    BY <1>1
  <2>2. ~ (b <= Len(f[0]))
    BY <1>1
  <2> HIDE DEF n
  <2> QED BY <1>1, <2>1, <2>2, PlacedBy
<1> QED BY <1>3, <1>4

(* What a patch has lengthened the circuit by up to place k. *)
Seen(p, k) == IF p.first <= k THEN Len(p.output) - Cardinality(p.matched \cap (1..k)) ELSE 0

SeenAt(P, p, k) ==
    /\ Seen(p, k) \in Int
    /\ k = 0 => Seen(p, k) = 0
    /\ k # 0 /\ k \notin p.first..p.last => Seen(p, k) = Seen(p, k - 1)
    /\ k # 0 /\ k \in p.first..p.last =>
         Seen(p, k) = Seen(p, k - 1) + (IF k = p.first THEN Len(p.output) ELSE 0)
                                     - (IF k \in p.matched THEN 1 ELSE 0)
    /\ p.last <= k => Seen(p, k) = Weights(P)[p]

(* What one more place shows of a patch. *)
LEMMA SeenStep ==
    ASSUME NEW len \in Nat, NEW P, Apart(P, len), NEW p \in P, NEW k \in 0..len
    PROVE  SeenAt(P, p, k)
<1>1. /\ p.first \in 1..len /\ p.last \in p.first..len
      /\ p.matched \subseteq p.first..p.last /\ p.first \in p.matched
  BY DEF Apart
<1>2. /\ Len(p.output) \in Nat /\ Weights(P)[p] = Len(p.output) - Cardinality(p.matched)
  BY ApartSizes
<1>3. /\ p.first \in Int /\ p.last \in Int /\ p.first >= 1 /\ p.first <= p.last
      /\ k \in Nat /\ len \in Nat
  BY <1>1
<1> DEFINE upTo(m) == p.matched \cap (1..m)
<1>4. ASSUME NEW m \in Nat PROVE IsFiniteSet(upTo(m)) /\ Cardinality(upTo(m)) \in Nat
  <2>1. upTo(m) \in SUBSET (1..m)
    OBVIOUS
  <2> HIDE DEF upTo
  <2> QED BY <2>1, SizeIsNatural
<1>5. \A m \in Nat : Seen(p, m) = IF p.first <= m THEN Len(p.output) - Cardinality(upTo(m)) ELSE 0
  BY DEF Seen
<1>6. Seen(p, k) \in Int
  <2>1. Cardinality(upTo(k)) \in Nat /\ k \in Nat
    BY <1>3, <1>4
  <2> HIDE DEF upTo
  <2> QED BY <1>2, <1>3, <1>5, <2>1
<1>7. ASSUME k = 0 PROVE Seen(p, k) = 0
  BY <1>3, <1>7 DEF Seen
<1>8. ASSUME k # 0, k \notin p.first..p.last PROVE Seen(p, k) = Seen(p, k - 1)
  <2>1. p.first <= k <=> p.first <= k - 1
    BY <1>3, <1>8
  <2>2. upTo(k) = upTo(k - 1)
    <3>1. k \notin p.matched
      BY <1>1, <1>8
    <3> QED BY <1>3, <3>1
  <2>3. k - 1 \in Nat
    BY <1>3, <1>8
  <2> HIDE DEF upTo
  <2> QED BY <1>3, <1>5, <2>1, <2>2, <2>3
<1>9. ASSUME k # 0, k \in p.first..p.last
      PROVE  Seen(p, k) = Seen(p, k - 1) + (IF k = p.first THEN Len(p.output) ELSE 0)
                                         - (IF k \in p.matched THEN 1 ELSE 0)
  <2>1. p.first <= k /\ k - 1 \in Nat
    BY <1>3, <1>9
  <2>2. Cardinality(upTo(k)) = Cardinality(upTo(k - 1)) + (IF k \in p.matched THEN 1 ELSE 0)
    <3>1. k \notin upTo(k - 1)
      BY <1>3
    <3>2. CASE k \in p.matched
      <4>1. upTo(k) = upTo(k - 1) \cup {k}
        BY <1>3, <1>9, <3>2
      <4>2. IsFiniteSet(upTo(k - 1))
        BY <1>4, <2>1
      <4> DEFINE A == upTo(k - 1)
                 B == upTo(k)
      <4>3. IsFiniteSet(A) /\ k \notin A /\ B = A \cup {k}
        BY <3>1, <4>1, <4>2
      <4> HIDE DEF A, B
      <4>4. Cardinality(B) = Cardinality(A) + 1
        BY <4>3, FS_AddElement
      <4> QED BY <3>2, <4>4 DEF A, B
    <3>3. CASE k \notin p.matched
      <4>1. upTo(k) = upTo(k - 1)
        BY <1>3, <3>3
      <4>2. Cardinality(upTo(k - 1)) \in Nat
        BY <1>4, <2>1
      <4> HIDE DEF upTo
      <4> QED BY <3>3, <4>1, <4>2
    <3> QED BY <3>2, <3>3
  <2>3. Cardinality(upTo(k)) \in Nat /\ Cardinality(upTo(k - 1)) \in Nat
    BY <1>3, <1>4, <2>1
  <2>4. Seen(p, k) = Len(p.output) - Cardinality(upTo(k))
    BY <1>3, <1>5, <2>1
  <2>5. CASE k = p.first
    <3>1. Seen(p, k - 1) = 0 /\ k \in p.matched
      <4>1. ~ (p.first <= k - 1)
        BY <1>3, <2>5
      <4> QED BY <1>1, <2>5, <4>1 DEF Seen
    <3>2. upTo(k - 1) = {}
      BY <1>1, <1>3, <2>5
    <3>3. Cardinality(upTo(k - 1)) = 0
      BY <3>2, FS_EmptySet, Zenon
    <3> HIDE DEF upTo
    <3> QED BY <1>2, <2>2, <2>3, <2>4, <2>5, <3>1, <3>3
  <2>6. CASE k # p.first
    <3>1. p.first <= k - 1
      BY <1>3, <2>1, <2>6
    <3>2. Seen(p, k - 1) = Len(p.output) - Cardinality(upTo(k - 1))
      BY <1>5, <2>1, <3>1
    <3> DEFINE x == Cardinality(upTo(k))
               y == Cardinality(upTo(k - 1))
               o == Len(p.output)
               a == Seen(p, k)
               b == Seen(p, k - 1)
    <3>3. a = o - x /\ b = o - y /\ x = y + (IF k \in p.matched THEN 1 ELSE 0)
          /\ x \in Nat /\ y \in Nat /\ o \in Nat
      BY <1>2, <2>2, <2>3, <2>4, <3>2
    <3> HIDE DEF x, y, o, a, b
    <3>4. a = b + 0 - (IF k \in p.matched THEN 1 ELSE 0)
      BY <3>3
    <3> QED BY <2>6, <3>4 DEF a, b
  <2> QED BY <2>5, <2>6
<1>10. ASSUME p.last <= k PROVE Seen(p, k) = Weights(P)[p]
  <2>1. p.first <= k
    BY <1>3, <1>10
  <2>2. upTo(k) = p.matched
    BY <1>1, <1>3, <1>10
  <2> QED BY <1>2, <1>3, <1>5, <2>1, <2>2
<1> QED BY <1>6, <1>7, <1>8, <1>9, <1>10 DEF SeenAt

(* No patch spans both the place and the next. *)
Between(P, i) == \A p \in P : p.first <= i => p.last <= i

(* A place between patches has moved by the growth of those before it.     *)
LEMMA PatchLength ==
    ASSUME NEW c \in Seq(Ops), NEW P, Apart(P, Len(c)), NEW d, NEW f, PatchJoins(f, c, P, d),
           NEW i \in 0..Len(c), Between(P, i)
    PROVE  Len(f[i]) = i + Growth({p \in P : p.first <= i})
<1> DEFINE n == Len(c)
           v(k) == [p \in P |-> Seen(p, k)]
           V(k) == SumFunctionOnSet(v(k), P)
           S == {k \in 0..n : Len(f[k]) = k + V(k)}
<1>1. n \in Nat /\ IsFiniteSet(P)
  BY ApartSizes
<1>s. ASSUME NEW k \in 0..n, NEW p \in P PROVE SeenAt(P, p, k)
  BY <1>1, SeenStep
<1>t. PlaceByPlace(f, c, P)
  BY PatchSteps
<1>2. ASSUME NEW k \in 0..n, NEW p \in P
      PROVE  v(k)[p] = Seen(p, k) /\ v(k)[p] \in Int
  BY <1>s DEF SeenAt
<1>3. Len(f[0]) = 0 /\ \A k \in 0..n : Len(f[k]) \in Nat
  BY <1>t DEF PlaceByPlace
<1>4. 0 \in S
  <2>1. \A p \in P : v(0)[p] = 0
    <3>1. 0 \in 0..n
      BY <1>1
    <3> QED BY <1>s, <3>1 DEF SeenAt
  <2> DEFINE w == v(0)
  <2>2. \A p \in P : w[p] = 0
    BY <2>1
  <2> HIDE DEF w
  <2>3. SumFunctionOnSet(w, P) = 0
    BY <1>1, <2>2, SumOfZeros
  <2>4. V(0) = 0
    BY <2>3 DEF w
  <2>5. Len(f[0]) = 0 /\ 0 \in 0..n
    BY <1>1, <1>3
  <2> QED BY <2>4, <2>5
<1>5. ASSUME NEW k \in 0..n PROVE V(k) \in Int
  <2> DEFINE w == v(k)
  <2>1. \A p \in P : w[p] \in Int
    BY <1>2
  <2> HIDE DEF w
  <2>2. SumFunctionOnSet(w, P) \in Int
    BY <1>1, <2>1, SumIsInteger
  <2> QED BY <2>2 DEF w
<1>6. ASSUME NEW k \in 1..n, k - 1 \in S PROVE k \in S
  <2>1. k \in 0..n /\ k - 1 \in 0..n /\ k # 0
    BY <1>1
  <2>2. Len(f[k - 1]) = (k - 1) + V(k - 1)
    BY <1>6
  <2>3. V(k) \in Int /\ V(k - 1) \in Int
    BY <1>5, <2>1
  <2> DEFINE w == v(k - 1)
             u == v(k)
  <2>4. ASSUME NEW p \in P
        PROVE  /\ w[p] = Seen(p, k - 1) /\ w[p] \in Int
               /\ u[p] = Seen(p, k) /\ u[p] \in Int
    BY <1>2, <2>1
  <2>5. CASE Outside(P, k)
    <3>1. ASSUME NEW p \in P PROVE u[p] = w[p]
      <4>1. Seen(p, k) = Seen(p, k - 1)
        BY <1>s, <2>1, <2>5 DEF Outside, SeenAt
      <4> HIDE DEF u, w
      <4> QED BY <2>4, <4>1
    <3> HIDE DEF u, w
    <3>2. SumFunctionOnSet(u, P) = SumFunctionOnSet(w, P)
      BY <1>1, <3>1, SumCongruent
    <3>3. V(k) = V(k - 1)
      BY <3>2 DEF u, w
    <3>4. Len(f[k]) = Len(f[k - 1]) + 1
      BY <1>t, <2>5 DEF PlaceByPlace
    <3> HIDE DEF V
    <3>5. Len(f[k]) = k + V(k)
      BY <2>1, <2>2, <2>3, <3>3, <3>4
    <3> QED BY <2>1, <3>5
  <2>6. CASE ~ Outside(P, k)
    <3>1. PICK p \in P : k \in p.first..p.last
      BY <2>6 DEF Outside
    <3>2. ASSUME NEW q \in P, q # p PROVE u[q] = w[q]
      <4>1. k \notin q.first..q.last
        <5>1. p.last < q.first \/ q.last < p.first
          BY <3>2 DEF Apart
        <5>2. p.first \in 1..n /\ q.first \in 1..n /\ p.last \in p.first..n /\ q.last \in q.first..n
          BY DEF Apart
        <5> QED BY <3>1, <5>1, <5>2
      <4>2. Seen(q, k) = Seen(q, k - 1)
        BY <1>s, <2>1, <4>1 DEF SeenAt
      <4> HIDE DEF u, w
      <4> QED BY <2>4, <4>2
    <3> DEFINE out == IF k = p.first THEN Len(p.output) ELSE 0
    <3>3. Seen(p, k) = Seen(p, k - 1) + out - (IF k \in p.matched THEN 1 ELSE 0)
      BY <1>s, <2>1, <3>1 DEF SeenAt
    <3>4. SumFunctionOnSet(u, P) = SumFunctionOnSet(w, P) + (u[p] - w[p])
      <4> HIDE DEF u, w
      <4> QED BY <1>1, <2>4, <3>2, SumChangesAt
    <3>5. V(k) = V(k - 1) + (Seen(p, k) - Seen(p, k - 1))
      BY <2>4, <3>4
    <3>6. Len(f[k]) = Len(f[k - 1]) + out + (IF k \in p.matched THEN 0 ELSE 1)
      BY <1>t, <3>1 DEF PlaceByPlace
    <3>7. out \in Nat /\ Seen(p, k) \in Int /\ Seen(p, k - 1) \in Int
      <4>1. Len(p.output) \in Nat
        BY <1>1, ApartSizes
      <4>2. Seen(p, k) \in Int /\ Seen(p, k - 1) \in Int
        BY <2>4
      <4> QED BY <4>1, <4>2
    <3> DEFINE a == Seen(p, k)
               b == Seen(p, k - 1)
               x == Len(f[k])
               y == Len(f[k - 1])
               vk == V(k)
               vj == V(k - 1)
    <3>8. /\ a = b + out - (IF k \in p.matched THEN 1 ELSE 0)
          /\ vk = vj + (a - b) /\ x = y + out + (IF k \in p.matched THEN 0 ELSE 1)
          /\ y = (k - 1) + vj /\ out \in Int /\ a \in Int /\ b \in Int /\ vk \in Int /\ vj \in Int
      <4>1. y = (k - 1) + vj /\ vk \in Int /\ vj \in Int
        BY <2>2, <2>3
      <4>2. a = b + out - (IF k \in p.matched THEN 1 ELSE 0)
        BY <3>3
      <4>3. vk = vj + (a - b)
        BY <3>5
      <4>4. x = y + out + (IF k \in p.matched THEN 0 ELSE 1)
        BY <3>6
      <4>5. out \in Int /\ a \in Int /\ b \in Int
        BY <3>7
      <4> HIDE DEF x, y, vk, vj, a, b, out
      <4> QED BY <4>1, <4>2, <4>3, <4>4, <4>5
    <3> HIDE DEF a, b, x, y, vk, vj, out
    <3>9. x = k + vk
      BY <2>1, <3>8
    <3> QED BY <2>1, <3>9 DEF x, vk
  <2> QED BY <2>5, <2>6
<1>7. \A k \in 0..n : k \in S
  <2>1. \A k \in 1..n : k - 1 \in S => k \in S
    BY <1>6
  <2> HIDE DEF S
  <2> QED BY <1>1, <1>4, <2>1, CountUp
<1>8. Len(f[i]) = i + V(i)
  <2>1. i \in S
    BY <1>7
  <2> QED BY <2>1
<1>9. V(i) = Growth({p \in P : p.first <= i})
  <2> DEFINE Q == {p \in P : p.first <= i}
             R == P \ Q
             w == v(i)
  <2>1. IsFiniteSet(Q) /\ IsFiniteSet(R) /\ Q \in SUBSET P
    BY <1>1, FS_Subset
  <2>2. \A p \in P : w[p] \in Int
    BY <1>2
  <2>3. \A p \in R : w[p] = 0
    BY DEF Seen
  <2>4. \A p \in Q : w[p] = Weights(P)[p]
    BY <1>s DEF Between, SeenAt
  <2> HIDE DEF w, Q
  <2>5. SumFunctionOnSet(w, P) = SumFunctionOnSet(w, Q) + SumFunctionOnSet(w, R)
    BY <1>1, <2>1, <2>2, SumSplits
  <2> HIDE DEF R
  <2>6. SumFunctionOnSet(w, R) = 0
    BY <2>1, <2>3, SumOfZeros
  <2>7. SumFunctionOnSet(w, Q) = SumFunctionOnSet(Weights(P), Q)
    BY <2>1, <2>4, SumCongruent
  <2>8. Growth(Q) = SumFunctionOnSet(Weights(P), Q) /\ Growth(Q) \in Int
    BY <1>1, <2>1, GrowthSums
  <2>9. SumFunctionOnSet(w, P) = Growth(Q)
    BY <2>5, <2>6, <2>7, <2>8
  <2> QED BY <2>9 DEF w, Q
<1> QED BY <1>8, <1>9, Zenon

(* A candidate replaces what a rule that fires has matched. *)
LEMMA CandidateShape ==
    ASSUME NEW c \in Seq(Ops), NEW cfg \in Configs, NEW A \in SUBSET (1..Len(c)),
           NEW p \in Candidates(c, Keys(c), cfg, A)
    PROVE  /\ p.first \in 1..Len(c) /\ p.last \in p.first..Len(c)
           /\ p.matched \subseteq p.first..p.last /\ p.first \in p.matched
           /\ p.output \in Seq(Ops)
           /\ SameBlock(c, p.first, p.last)
           /\ DOMAIN p = {"first", "last", "matched", "output"}
<1>1. PICK a \in A : p \in CandidatesAt(c, Keys(c), cfg, a)
  BY DEF Candidates
<1>2. a \in 1..Len(c) /\ p.output \in Seq(Ops)
  BY CandidateOutput
<1>3. PICK r \in Active(cfg) : \E at : Fires(c, cfg, r, a, at) /\ p = Replacing(c, r, a, at)
  BY <1>1, <1>2, CandidateFires
<1>4. PICK at : Fires(c, cfg, r, a, at) /\ p = Replacing(c, r, a, at)
  BY <1>3
<1> DEFINE n == Len(r.source)
<1>5. r \in Rules /\ Chain(c, cfg.window, r, a, at)
  BY <1>4 DEF Fires, Active, Considered
<1>6. /\ n \in Nat \ {0}
      /\ \A i \in 1..n : at[i] \in 1..Len(c) /\ a <= at[i] /\ at[i] <= at[n]
      /\ SameBlock(c, a, at[n])
  BY <1>2, <1>5, ChainSpan
<1>7. at \in [1..n -> 1..Len(c)] /\ at[1] = a
  BY <1>5 DEF Chain
<1>8. /\ p.first = a /\ p.last = at[n] /\ p.matched = Range(at)
      /\ DOMAIN p = {"first", "last", "matched", "output"}
  BY <1>4 DEF Replacing
<1> HIDE DEF n
<1>9. Range(at) = {at[i] : i \in 1..n}
  BY <1>7 DEF Range
<1>10. 1 \in 1..n /\ n \in 1..n /\ at[n] \in a..Len(c)
  BY <1>2, <1>6
<1>11. Range(at) \subseteq a..at[n] /\ a \in Range(at)
  <2>1. \A i \in 1..n : at[i] \in a..at[n]
    BY <1>2, <1>6, <1>10
  <2> QED BY <1>7, <1>9, <1>10, <2>1
<1> QED BY <1>2, <1>6, <1>8, <1>10, <1>11

(* The patches of a round are apart, and each stays within a block. *)
LEMMA SelectedApart ==
    ASSUME NEW c \in Seq(Ops), NEW cfg \in Configs, NEW A \in SUBSET (1..Len(c)),
           NEW P \in Selections(Candidates(c, Keys(c), cfg, A))
    PROVE  /\ Apart(P, Len(c))
           /\ \A p \in P : SameBlock(c, p.first, p.last)
<1>1. \A p \in P : p \in Candidates(c, Keys(c), cfg, A)
  BY DEF Selections
<1>2. ASSUME NEW p \in P
      PROVE  /\ p.first \in 1..Len(c) /\ p.last \in p.first..Len(c)
             /\ p.matched \subseteq p.first..p.last /\ p.first \in p.matched
             /\ p.output \in Seq(Ops)
             /\ SameBlock(c, p.first, p.last)
             /\ DOMAIN p = {"first", "last", "matched", "output"}
  BY <1>1, CandidateShape
<1>3. ASSUME NEW p \in P, NEW q \in P, p # q PROVE p.last < q.first \/ q.last < p.first
  <2>1. ~ Overlap(p, q)
    BY <1>3 DEF Selections
  <2>2. p.first \in Int /\ p.last \in Int /\ q.first \in Int /\ q.last \in Int
    BY <1>2
  <2> QED BY <2>1, <2>2 DEF Overlap
<1> QED BY <1>2, <1>3 DEF Apart

(* Where the output of a patch begins, and where what comes of its span    *)
(* ends.                                                                   *)
OutputFrom(P, p) == p.first + Growth({q \in P : q.first < p.first})
SpanTo(P, p) == p.last + Growth({q \in P : q.first <= p.first})

(* Where a patch begins and ends in the patched circuit. *)
LEMMA PatchEnds ==
    ASSUME NEW c \in Seq(Ops), NEW P, Apart(P, Len(c)), NEW d, NEW f, PatchJoins(f, c, P, d),
           NEW p \in P
    PROVE  /\ OutputFrom(P, p) = Len(f[p.first - 1]) + 1
           /\ SpanTo(P, p) = Len(f[p.last])
           /\ Len(c) + Growth(P) = Len(d)
<1> DEFINE n == Len(c)
<1>1. n \in Nat /\ p.first \in 1..n /\ p.last \in p.first..n /\ p.first \in Int /\ p.last \in Int
  BY DEF Apart
<1>2. ASSUME NEW q \in P
      PROVE  /\ q.first \in Int /\ q.last \in Int /\ q.first <= q.last /\ q.last <= n /\ 1 <= q.first
             /\ q # p => p.last < q.first \/ q.last < p.first
  <2>1. q.first \in 1..n /\ q.last \in q.first..n
    BY DEF Apart
  <2> QED BY <1>1, <2>1 DEF Apart
<1>3. p.first + Growth({q \in P : q.first < p.first}) = Len(f[p.first - 1]) + 1
  <2> DEFINE i == p.first - 1
             Q == {q \in P : q.first <= i}
  <2>1. i \in 0..Len(c) /\ i + 1 = p.first
    BY <1>1
  <2>2. Between(P, i)
    BY <1>1, <1>2 DEF Between
  <2>3. Q = {q \in P : q.first < p.first}
    BY <1>1, <1>2
  <2>4. Len(f[i]) = i + Growth(Q)
    <3> HIDE DEF i
    <3> QED BY <2>1, <2>2, PatchLength
  <2>5. Growth(Q) \in Int
    <3>1. Q \in SUBSET P
      OBVIOUS
    <3> HIDE DEF Q
    <3> QED BY <1>1, <3>1, GrowthSums
  <2> DEFINE g == Growth(Q)
             x == Len(f[i])
  <2>6. g \in Int /\ x = i + g /\ i \in Int
    BY <2>1, <2>4, <2>5
  <2> HIDE DEF g, x
  <2>7. p.first + g = x + 1
    BY <1>1, <2>1, <2>6
  <2> QED BY <2>3, <2>7 DEF g, x
<1>4. p.last + Growth({q \in P : q.first <= p.first}) = Len(f[p.last])
  <2> DEFINE i == p.last
  <2>1. i \in 0..Len(c)
    BY <1>1
  <2>2. Between(P, i)
    BY <1>1, <1>2 DEF Between
  <2>3. {q \in P : q.first <= i} = {q \in P : q.first <= p.first}
    BY <1>1, <1>2
  <2>4. Len(f[i]) = i + Growth({q \in P : q.first <= i})
    <3> HIDE DEF i
    <3> QED BY <2>1, <2>2, PatchLength
  <2> QED BY <2>3, <2>4
<1>5. Len(c) + Growth(P) = Len(d)
  <2>1. Between(P, n) /\ n \in 0..Len(c)
    BY <1>1, <1>2 DEF Between
  <2>2. {q \in P : q.first <= n} = P
    BY <1>1, <1>2
  <2>3. Len(f[n]) = n + Growth({q \in P : q.first <= n})
    BY <2>1, PatchLength
  <2>4. f[n] = d
    BY DEF PatchJoins
  <2> QED BY <2>2, <2>3, <2>4
<1> QED BY <1>3, <1>4, <1>5 DEF OutputFrom, SpanTo

-----------------------------------------------------------------------------
(* Blocks and dirty anchors *)

(* The ends of an interval. *)
LEMMA MinMaxOfInterval ==
    ASSUME NEW lo \in Int, NEW hi \in Int, lo <= hi
    PROVE  Min(lo..hi) = lo /\ Max(lo..hi) = hi
<1>1. \E x \in lo..hi : \A y \in lo..hi : x <= y
  <2>1. lo \in lo..hi /\ \A y \in lo..hi : lo <= y
    OBVIOUS
  <2> QED BY <2>1
<1>2. \E x \in lo..hi : \A y \in lo..hi : x >= y
  <2>1. hi \in lo..hi /\ \A y \in lo..hi : hi >= y
    OBVIOUS
  <2> QED BY <2>1
<1>3. Min(lo..hi) \in lo..hi /\ \A y \in lo..hi : Min(lo..hi) <= y
  BY <1>1 DEF Min
<1>4. Max(lo..hi) \in lo..hi /\ \A y \in lo..hi : Max(lo..hi) >= y
  BY <1>2 DEF Max
<1>5. lo \in lo..hi /\ hi \in lo..hi
  OBVIOUS
<1> DEFINE x == Min(lo..hi)
           y == Max(lo..hi)
<1>6. x \in lo..hi /\ y \in lo..hi /\ x <= lo /\ y >= hi
  BY <1>3, <1>4, <1>5
<1> HIDE DEF x, y
<1>7. x = lo /\ y = hi
  BY <1>6
<1> QED BY <1>7 DEF x, y

(* A block lies between unkeyed operations. *)
IsBlock(c, lo, hi) ==
    /\ lo \in 1..Len(c) /\ hi \in lo..Len(c) /\ SameBlock(c, lo, hi)
    /\ lo > 1 => c[lo - 1].gate \notin Keyed
    /\ hi < Len(c) => c[hi + 1].gate \notin Keyed

(* Blocks are the intervals between operations without keys. *)
LEMMA BlockShape ==
    ASSUME NEW c \in Seq(Ops), NEW B
    PROVE  B \in Blocks(c) <=> \E lo, hi : B = lo..hi /\ IsBlock(c, lo, hi)
<1> DEFINE n == Len(c)
           Maximal(S) == /\ SameBlock(c, Min(S), Max(S))
                         /\ Min(S) > 1 => ~ SameBlock(c, Min(S) - 1, Min(S))
                         /\ Max(S) < n => ~ SameBlock(c, Max(S), Max(S) + 1)
<1>1. B \in Blocks(c) <=> B \in {i..j : i, j \in 1..n} \ {{}} /\ Maximal(B)
  BY DEF Blocks
<1>2. n \in Nat
  OBVIOUS
<1>3. ASSUME NEW lo \in 1..n, NEW hi \in 1..n, lo <= hi, B = lo..hi
      PROVE  Maximal(B) <=> IsBlock(c, lo, hi)
  <2>1. Min(B) = lo /\ Max(B) = hi
    <3>1. lo \in Int /\ hi \in Int
      OBVIOUS
    <3> QED BY <1>3, <3>1, MinMaxOfInterval
  <2>2. Maximal(B) <=> /\ SameBlock(c, lo, hi)
                       /\ lo > 1 => ~ SameBlock(c, lo - 1, lo)
                       /\ hi < n => ~ SameBlock(c, hi, hi + 1)
    BY <2>1
  <2>3. ASSUME SameBlock(c, lo, hi)
        PROVE  /\ SameBlock(c, lo - 1, lo) <=> c[lo - 1].gate \in Keyed
               /\ SameBlock(c, hi, hi + 1) <=> c[hi + 1].gate \in Keyed
    <3>1. c[lo].gate \in Keyed /\ c[hi].gate \in Keyed
      BY <1>3, <2>3 DEF SameBlock
    <3>2. (lo - 1)..lo = {lo - 1, lo} /\ hi..(hi + 1) = {hi, hi + 1}
      OBVIOUS
    <3> QED BY <3>1, <3>2 DEF SameBlock
  <2>4. hi \in lo..n
    BY <1>3
  <2> HIDE DEF Maximal
  <2> QED BY <2>2, <2>3, <2>4 DEF IsBlock
<1> HIDE DEF Maximal
<1>4. ASSUME B \in Blocks(c) PROVE \E lo, hi : B = lo..hi /\ IsBlock(c, lo, hi)
  <2>1. PICK lo \in 1..n, hi \in 1..n : B = lo..hi
    BY <1>1, <1>4
  <2>2. B # {} /\ Maximal(B)
    BY <1>1, <1>4
  <2>3. lo <= hi
    BY <2>1, <2>2
  <2> QED BY <1>3, <2>1, <2>2, <2>3
<1>5. ASSUME NEW lo, NEW hi, B = lo..hi, IsBlock(c, lo, hi) PROVE B \in Blocks(c)
  <2>1. lo \in 1..n /\ hi \in 1..n /\ lo <= hi
    BY <1>5 DEF IsBlock
  <2>2. Maximal(B)
    BY <1>3, <1>5, <2>1
  <2>3. lo \in B
    BY <1>5, <2>1
  <2> QED BY <1>1, <1>5, <2>1, <2>2, <2>3
<1> QED BY <1>4, <1>5

(* Every keyed operation is in a block. *)
LEMMA BlockOf ==
    ASSUME NEW c \in Seq(Ops), NEW i \in 1..Len(c), c[i].gate \in Keyed
    PROVE  \E lo, hi : IsBlock(c, lo, hi) /\ i \in lo..hi
<1> DEFINE n == Len(c)
           L == {x \in 1..i : SameBlock(c, x, i)}
           R == {x \in Nat : x <= n - i /\ ~ (x < n - i /\ c[i + x + 1].gate \in Keyed)}
<1>1. n \in Nat /\ i \in Nat /\ 1 <= i /\ i <= n
  OBVIOUS
<1>2. SameBlock(c, i, i)
  BY DEF SameBlock
<1>3. i \in L /\ L \subseteq Nat
  BY <1>1, <1>2
<1>4. PICK lo \in L : \A x \in L : lo <= x
  <2> HIDE DEF L
  <2> QED BY <1>3, LeastNatural
<1>5. n - i \in R /\ R \subseteq Nat
  BY <1>1
<1>6. PICK k \in R : \A x \in R : k <= x
  <2> HIDE DEF R
  <2> QED BY <1>5, LeastNatural
<1> DEFINE hi == i + k
<1>7. lo \in 1..i /\ SameBlock(c, lo, i) /\ k \in Nat /\ k <= n - i
  BY <1>4, <1>6
<1>8. lo > 1 => c[lo - 1].gate \notin Keyed
  <2>1. SUFFICES ASSUME lo > 1, c[lo - 1].gate \in Keyed PROVE FALSE
    OBVIOUS
  <2>2. SameBlock(c, lo - 1, i)
    <3>1. \A m \in (lo - 1)..i : m = lo - 1 \/ m \in lo..i
      BY <1>1, <1>7
    <3> QED BY <1>7, <2>1, <3>1 DEF SameBlock
  <2>3. lo - 1 \in L /\ ~ (lo <= lo - 1)
    BY <1>1, <1>7, <2>1, <2>2
  <2> QED BY <1>4, <2>3
<1>9. hi < n => c[hi + 1].gate \notin Keyed
  <2>1. ~ (k < n - i /\ c[i + k + 1].gate \in Keyed)
    BY <1>6
  <2>2. hi < n => k < n - i
    BY <1>1, <1>7
  <2> QED BY <2>1, <2>2
<1>10. SameBlock(c, lo, hi)
  <2>1. SUFFICES ASSUME NEW m \in lo..hi PROVE c[m].gate \in Keyed
    BY DEF SameBlock
  <2>2. CASE m <= i
    <3>1. m \in lo..i
      BY <1>1, <1>7, <2>2
    <3> QED BY <1>7, <3>1 DEF SameBlock
  <2>3. CASE ~ (m <= i)
    <3> DEFINE x == m - i - 1
    <3>1. x \in Nat /\ x < k /\ x < n - i /\ i + x + 1 = m /\ x <= n - i /\ ~ (k <= x)
      BY <1>1, <1>7, <2>3
    <3>2. x \notin R
      BY <1>6, <3>1
    <3> HIDE DEF x
    <3>3. c[i + x + 1].gate \in Keyed
      BY <3>1, <3>2
    <3> QED BY <3>1, <3>3
  <2> QED BY <2>2, <2>3
<1>11. lo \in 1..n /\ hi \in lo..n /\ i \in lo..hi
  BY <1>1, <1>7
<1> HIDE DEF hi
<1>12. IsBlock(c, lo, hi)
  BY <1>8, <1>9, <1>10, <1>11 DEF IsBlock
<1> QED BY <1>11, <1>12

(* What is keyed without a gap is of one block. *)
LEMMA BlockHolds ==
    ASSUME NEW c \in Seq(Ops), NEW lo, NEW hi, IsBlock(c, lo, hi),
           NEW i \in 1..Len(c), NEW j \in 1..Len(c), SameBlock(c, i, j), i <= j
    PROVE  i \in lo..hi <=> j \in lo..hi
<1> DEFINE n == Len(c)
<1>1. n \in Nat /\ lo \in 1..n /\ hi \in lo..n
  BY DEF IsBlock
<1>2. \A m \in i..j : c[m].gate \in Keyed
  BY DEF SameBlock
<1>3. ASSUME i \in lo..hi, j \notin lo..hi PROVE FALSE
  <2>1. hi + 1 \in i..j /\ hi < n
    BY <1>1, <1>3
  <2> QED BY <1>2, <2>1 DEF IsBlock
<1>4. ASSUME j \in lo..hi, i \notin lo..hi PROVE FALSE
  <2>1. lo - 1 \in i..j /\ lo > 1
    BY <1>1, <1>4
  <2> QED BY <1>2, <2>1 DEF IsBlock
<1> QED BY <1>3, <1>4

(* The range that dirty_ranges_after_patches takes of a patch. *)
LEMMA RangeDirty ==
    ASSUME NEW len, NEW P, NEW reach \in Nat, NEW p \in P, NEW b \in Int,
           NEW start \in Int, start = p.first + Growth({q \in P : q.first < p.first}),
           NEW end \in Int, end = p.last + Growth({q \in P : q.first <= p.first}),
           NEW new \in Int, new = len + Growth(P),
           1 <= b, b <= new, start - reach <= b, b <= start \/ b <= end
    PROVE  b \in DirtyAfterPatches(len, P, reach)
<1> DEFINE from(q) == q.first + Growth({x \in P : x.first < q.first})
           to(q) == q.last + Growth({x \in P : x.first <= q.first})
           range(q) == Max({1, from(q) - reach})..Min({new, Max({from(q), to(q)})})
           ranges == UNION {range(q) : q \in P}
<1>1. DirtyAfterPatches(len, P, reach) = IF ranges = {} THEN 1..Min({new, reach + 1}) ELSE ranges
  BY DEF DirtyAfterPatches
<1>2. from(p) = start /\ to(p) = end
  OBVIOUS
<1> DEFINE most == Max({start, end})
           least == Max({1, start - reach})
           stop == Min({new, most})
<1>3. range(p) = least..stop
  BY <1>2, Zenon
<1>4. most \in {start, end} /\ start <= most /\ end <= most
  BY GreaterOfTwo
<1> HIDE DEF most
<1>5. least \in {1, start - reach} /\ stop \in {new, most}
  <2>1. most \in Int /\ start - reach \in Int /\ 1 \in Int
    BY <1>4
  <2> QED BY <2>1, GreaterOfTwo, LesserOfTwo
<1> HIDE DEF least, stop
<1>6. b \in least..stop
  BY <1>4, <1>5
<1>7. b \in range(p)
  BY <1>3, <1>6, Zenon
<1> HIDE DEF range
<1>8. b \in ranges /\ ranges # {}
  BY <1>7
<1> QED BY <1>1, <1>8, Zenon

(* The patches S among P are those of Q and those of R. *)
Parts(S, Q, R, P) == Q \in SUBSET P /\ R \in SUBSET P /\ Q \cap R = {} /\ S = Q \cup R

(* The growths of the two parts of a set of patches add up ... *)
LEMMA GrowthParts ==
    ASSUME NEW len \in Nat, NEW P, Apart(P, len), NEW S, NEW Q, NEW R, Parts(S, Q, R, P)
    PROVE  Growth(S) = Growth(Q) + Growth(R)
<1> DEFINE w == Weights(P)
<1>1. S \in SUBSET P /\ Q \in SUBSET S /\ Q \in SUBSET P /\ R \in SUBSET P /\ S \ Q = R
  BY DEF Parts
<1>2. IsFiniteSet(S) /\ \A p \in S : w[p] \in Int
  BY <1>1, ApartSizes, FS_Subset
<1>3. Growth(S) = SumFunctionOnSet(w, S)
  BY <1>1, GrowthSums
<1>4. Growth(Q) = SumFunctionOnSet(w, Q) /\ Growth(R) = SumFunctionOnSet(w, R)
  BY <1>1, GrowthSums
<1> HIDE DEF w
<1>5. SumFunctionOnSet(w, S) = SumFunctionOnSet(w, Q) + SumFunctionOnSet(w, S \ Q)
  BY <1>1, <1>2, SumSplits
<1> QED BY <1>1, <1>3, <1>4, <1>5, Zenon

(* ... and so those of two sets without a patch in common. *)
LEMMA GrowthAdds ==
    ASSUME NEW len \in Nat, NEW P, Apart(P, len), NEW Q \in SUBSET P, NEW R \in SUBSET P,
           Q \cap R = {}
    PROVE  Growth(Q \cup R) = Growth(Q) + Growth(R)
<1>1. PICK S : S = Q \cup R /\ Parts(S, Q, R, P)
  BY DEF Parts
<1>2. Growth(S) = Growth(Q) + Growth(R)
  BY <1>1, GrowthParts
<1> QED BY <1>1, <1>2

(* Positions relative to a block. *)
Local(p, k) == [p EXCEPT !.first = @ - k, !.last = @ - k]

(* Growth does not depend on where the patches are. *)
LEMMA LocalGrowth ==
    ASSUME NEW len \in Nat, NEW P, Apart(P, len), NEW Q \in SUBSET P, NEW k \in Int
    PROVE  Growth({Local(p, k) : p \in Q}) = Growth(Q)
<1> DEFINE f == [p \in Q |-> Local(p, k)]
           M == {f[p] : p \in Q}
           v == [m \in M |-> Len(m.output) - Cardinality(m.matched)]
           w == Weights(P)
<1>1. ASSUME NEW p \in Q
      PROVE  /\ f[p].first = p.first - k /\ f[p].output = p.output /\ f[p].matched = p.matched
             /\ p.first \in Int /\ w[p] \in Int
             /\ w[p] = Len(p.output) - Cardinality(p.matched)
  <2>1. DOMAIN p = {"first", "last", "matched", "output"} /\ p.first \in 1..len
    BY DEF Apart
  <2>2. /\ Local(p, k).first = p.first - k /\ Local(p, k).output = p.output
        /\ Local(p, k).matched = p.matched
    BY <2>1 DEF Local
  <2>3. w[p] \in Int /\ w[p] = Len(p.output) - Cardinality(p.matched)
    BY ApartSizes
  <2> QED BY <2>1, <2>2, <2>3
<1>2. \A p, q \in Q : f[p] = f[q] => p = q
  <2>1. SUFFICES ASSUME NEW p \in Q, NEW q \in Q, f[p] = f[q], p # q PROVE FALSE
    OBVIOUS
  <2>2. f[p].first = p.first - k /\ f[q].first = q.first - k /\ p.first \in Int /\ q.first \in Int
    BY <1>1
  <2>3. p.first = q.first
    <3> HIDE DEF f
    <3> QED BY <2>1, <2>2
  <2>4. p.last < q.first \/ q.last < p.first
    BY <2>1 DEF Apart
  <2>5. p.first \in 1..len /\ p.last \in p.first..len /\ q.last \in q.first..len
    BY DEF Apart
  <2> QED BY <2>3, <2>4, <2>5
<1>3. \A p \in Q : w[p] \in Int /\ v[f[p]] = w[p]
  <2>1. SUFFICES ASSUME NEW p \in Q PROVE w[p] \in Int /\ v[f[p]] = w[p]
    OBVIOUS
  <2>2. f[p] \in M
    OBVIOUS
  <2>3. v[f[p]] = Len(f[p].output) - Cardinality(f[p].matched)
    <3> HIDE DEF f, M
    <3> QED BY <2>2
  <2> QED BY <1>1, <2>3
<1>4. IsFiniteSet(Q)
  BY ApartSizes, FS_Subset
<1>5. {Local(p, k) : p \in Q} = M
  OBVIOUS
<1>6. Growth(M) = SumFunctionOnSet(v, M)
  <2> HIDE DEF M
  <2> QED BY DEF Growth, SumFunction
<1>7. Growth(Q) = SumFunctionOnSet(w, Q)
  BY GrowthSums
<1> HIDE DEF f, v, w
<1>8. SumFunctionOnSet(v, {f[p] : p \in Q}) = SumFunctionOnSet(w, Q)
  BY <1>2, <1>3, <1>4, SumRenamed
<1> QED BY <1>5, <1>6, <1>7, <1>8, Zenon

(* record_next_block_workset for one block. *)
BlockDirty(c, P, reach, block) ==
    LET inside == {p \in P : p.first \in block}
        before == Min(block) - 1
        local == {Local(p, before) : p \in inside}
        moved == before + Growth({p \in P : p.first <= before})
        len == Cardinality(block)
    IN  {moved + n : n \in IF SummaryChanges(c, block, inside)
                            THEN 1..(len + Growth(inside))
                            ELSE DirtyAfterPatches(len, local, reach)}

(* A block that was patched is recorded. *)
LEMMA DirtyOfBlock ==
    ASSUME NEW c, NEW P, NEW reach, NEW block \in Blocks(c), NEW p \in P, p.first \in block
    PROVE  BlockDirty(c, P, reach, block) \subseteq DirtyInBlocks(c, P, reach)
<1>1. DirtyInBlocks(c, P, reach) =
        UNION {BlockDirty(c, P, reach, block_1) :
               block_1 \in {b \in Blocks(c) : \E q \in P : q.first \in b}}
  BY Zenon DEF DirtyInBlocks, BlockDirty, Local
<1> QED BY <1>1

(* Patches of a rewrite: apart, and each within a block. *)
Fit(c, P) == Apart(P, Len(c)) /\ \A p \in P : SameBlock(c, p.first, p.last)

(* Where the images of a block begin and end. *)
BlockFrom(P, lo) == (lo - 1) + Growth({p \in P : p.first <= lo - 1})
BlockGrowth(P, lo, hi) == (hi - lo + 1) + Growth({p \in P : p.first \in lo..hi})

(* Where a block begins and ends in the patched circuit. *)
LEMMA BlockLengths ==
    ASSUME NEW c \in Seq(Ops), NEW P, Fit(c, P), NEW d, NEW f, PatchJoins(f, c, P, d),
           NEW lo, NEW hi, IsBlock(c, lo, hi)
    PROVE  /\ Len(f[lo - 1]) = BlockFrom(P, lo)
           /\ Len(f[hi]) = Len(f[lo - 1]) + BlockGrowth(P, lo, hi)
<1> DEFINE n == Len(c)
           before == lo - 1
           A == {p \in P : p.first <= before}
           B == {p \in P : p.first \in lo..hi}
           C == {p \in P : p.first <= hi}
<1>1. n \in Nat /\ lo \in 1..n /\ hi \in lo..n /\ Apart(P, n)
  BY DEF IsBlock, Fit
<1>2. ASSUME NEW p \in P
      PROVE  /\ p.first \in 1..n /\ p.last \in p.first..n
             /\ p.first \in lo..hi <=> p.last \in lo..hi
  <2>1. p.first \in 1..n /\ p.last \in p.first..n /\ SameBlock(c, p.first, p.last)
    BY <1>1 DEF Apart, Fit
  <2>2. p.first \in 1..Len(c) /\ p.last \in 1..Len(c) /\ p.first <= p.last
    BY <2>1
  <2> QED BY <2>1, <2>2, BlockHolds
<1>3. Between(P, before) /\ Between(P, hi)
  <2>1. ASSUME NEW p \in P, p.first <= before PROVE p.last <= before
    <3>1. p.first \in 1..n /\ p.last \in p.first..n
          /\ (p.first \in lo..hi <=> p.last \in lo..hi)
      BY <1>2
    <3>2. SUFFICES ASSUME p.last > hi PROVE FALSE
      BY <1>1, <2>1, <3>1
    <3>3. SameBlock(c, p.first, p.last) /\ lo - 1 \in p.first..p.last /\ lo > 1
      BY <1>1, <2>1, <3>1, <3>2 DEF Fit
    <3> QED BY <3>3 DEF SameBlock, IsBlock
  <2>2. ASSUME NEW p \in P, p.first <= hi PROVE p.last <= hi
    <3>1. CASE p.first <= before
      BY <1>1, <1>2, <2>1, <3>1
    <3>2. CASE ~ (p.first <= before)
      <4>1. p.first \in lo..hi
        BY <1>1, <1>2, <2>2, <3>2
      <4> QED BY <1>1, <1>2, <4>1
    <3> QED BY <3>1, <3>2
  <2> QED BY <2>1, <2>2 DEF Between
<1>4. Len(f[before]) = before + Growth(A)
  <2>1. before \in 0..Len(c) /\ Apart(P, Len(c))
    BY <1>1
  <2> HIDE DEF before
  <2> QED BY <1>3, <2>1, PatchLength
<1>5. Len(f[hi]) = hi + Growth(C)
  <2>1. hi \in 0..Len(c) /\ Apart(P, Len(c))
    BY <1>1
  <2> QED BY <1>3, <2>1, PatchLength
<1>6. A \in SUBSET P /\ B \in SUBSET P /\ A \cap B = {} /\ C = A \cup B
  <2>1. ASSUME NEW p \in P PROVE p.first <= hi <=> p.first <= before \/ p.first \in lo..hi
    BY <1>1, <1>2
  <2>2. ASSUME NEW p \in P PROVE ~ (p.first <= before /\ p.first \in lo..hi)
    BY <1>1, <1>2
  <2> QED BY <2>1, <2>2
<1> HIDE DEF A, B, C
<1>7. Growth(C) = Growth(A) + Growth(B) /\ Growth(A) \in Int /\ Growth(B) \in Int
  <2>1. Growth(A \cup B) = Growth(A) + Growth(B)
    BY <1>1, <1>6, GrowthAdds
  <2>2. Growth(A) \in Int /\ Growth(B) \in Int
    BY <1>1, <1>6, GrowthSums
  <2> QED BY <1>6, <2>1, <2>2
<1> DEFINE x == Growth(A)
           y == Growth(B)
           z == Growth(C)
<1>8. Len(f[before]) = before + x /\ Len(f[hi]) = hi + z /\ z = x + y /\ x \in Int /\ y \in Int
  BY <1>4, <1>5, <1>7
<1> HIDE DEF x, y, z
<1>9. Len(f[before]) = (lo - 1) + x /\ Len(f[hi]) = Len(f[before]) + ((hi - lo + 1) + y)
  BY <1>1, <1>8
<1> QED BY <1>9 DEF x, y, A, B, BlockFrom, BlockGrowth

(* What is within reach of a patch in the image of its block is dirty,     *)
(* up to the end of what the patch has put out.                            *)
LEMMA DirtyNear ==
    ASSUME NEW c \in Seq(Ops), NEW P, Fit(c, P), NEW d, NEW f, PatchJoins(f, c, P, d),
           NEW reach \in Nat, NEW p \in P, NEW lo, NEW hi, IsBlock(c, lo, hi), p.first \in lo..hi,
           NEW b \in Int, Len(f[lo - 1]) < b, b <= Len(f[hi]),
           Len(f[p.first - 1]) + 1 - reach <= b,
           b <= Len(f[p.first - 1]) + 1 \/ b <= Len(f[p.last])
    PROVE  b \in DirtyAfterPatches(Len(c), P, reach) /\ b \in DirtyInBlocks(c, P, reach)
<1> DEFINE n == Len(c)
           start == p.first + Growth({q \in P : q.first < p.first})
           end == p.last + Growth({q \in P : q.first <= p.first})
           new == Len(c) + Growth(P)
<1>1. n \in Nat /\ lo \in 1..n /\ hi \in lo..n /\ Apart(P, n)
  BY DEF IsBlock, Fit
<1>2. p.first \in 1..n /\ p.last \in p.first..n
  BY <1>1 DEF Apart
<1>3. start = Len(f[p.first - 1]) + 1 /\ end = Len(f[p.last]) /\ new = Len(d)
  <2>1. Apart(P, Len(c))
    BY <1>1
  <2>2. /\ OutputFrom(P, p) = Len(f[p.first - 1]) + 1
        /\ SpanTo(P, p) = Len(f[p.last])
        /\ Len(c) + Growth(P) = Len(d)
    BY <2>1, PatchEnds
  <2> QED BY <2>2 DEF OutputFrom, SpanTo
<1>4. \A i \in 0..n : Len(f[i]) \in Nat
  <2>1. PlaceByPlace(f, c, P)
    BY <1>1, PatchSteps
  <2> QED BY <2>1 DEF PlaceByPlace
<1>5. /\ p.first - 1 \in 0..n /\ p.last \in 0..n /\ lo - 1 \in 0..n /\ hi \in 0..n /\ n \in 0..n
      /\ hi <= n
  <2> HIDE DEF n
  <2>1. p.first - 1 \in 0..n /\ p.last \in 0..n
    BY <1>1, <1>2
  <2>2. lo - 1 \in 0..n /\ hi \in 0..n /\ hi <= n
    BY <1>1
  <2>3. n \in 0..n
    BY <1>1
  <2> QED BY <2>1, <2>2, <2>3
<1>6. f[n] = d /\ Len(f[hi]) <= Len(d)
  <2>1. InFront(f[hi], f[n])
    BY <1>1, <1>5, PatchFronts
  <2>2. f[n] = d
    BY DEF PatchJoins
  <2> QED BY <2>1, <2>2 DEF InFront
<1>7. /\ start \in Int /\ end \in Int /\ new \in Int
      /\ start - reach <= b /\ (b <= start \/ b <= end) /\ 1 <= b /\ b <= new
  <2>1. /\ Len(f[p.first - 1]) \in Nat /\ Len(f[p.last]) \in Nat /\ Len(d) \in Nat
        /\ Len(f[lo - 1]) \in Nat /\ Len(f[hi]) \in Nat /\ Len(f[hi]) <= Len(d)
    BY <1>4, <1>5, <1>6
  <2> DEFINE x == Len(f[p.first - 1])
             y == Len(f[p.last])
             z == Len(d)
             u == Len(f[lo - 1])
             v == Len(f[hi])
  <2>2. /\ start = x + 1 /\ end = y /\ new = z /\ x \in Nat /\ y \in Nat /\ z \in Nat
        /\ u \in Nat /\ v \in Nat /\ v <= z /\ u < b /\ b <= v
        /\ x + 1 - reach <= b /\ (b <= x + 1 \/ b <= y)
    BY <1>3, <2>1
  <2> HIDE DEF start, end, new, x, y, z, u, v
  <2> QED BY <2>2
<1>8. b \in DirtyAfterPatches(Len(c), P, reach)
  BY <1>7, RangeDirty
<1> DEFINE block == lo..hi
           before == lo - 1
           inside == {q \in P : q.first \in block}
           local == {Local(q, before) : q \in inside}
           moved == before + Growth({q \in P : q.first <= before})
           len == hi - lo + 1
           m == b - moved
<1>9. /\ block \in Blocks(c) /\ Min(block) = lo /\ Cardinality(block) = len
      /\ p.first \in block
  <2>1. block \in Blocks(c)
    BY BlockShape
  <2>2. lo \in Int /\ hi \in Int /\ lo <= hi
    BY <1>1
  <2>3. Min(lo..hi) = lo
    BY <2>2, MinMaxOfInterval
  <2>4. Cardinality(lo..hi) = hi - lo + 1
    BY <2>2, FS_Interval
  <2> QED BY <2>1, <2>3, <2>4
<1>10. moved = Len(f[lo - 1]) /\ Len(f[hi]) = moved + len + Growth(inside)
  <2>1. Len(f[lo - 1]) = BlockFrom(P, lo) /\ Len(f[hi]) = Len(f[lo - 1]) + BlockGrowth(P, lo, hi)
    BY BlockLengths
  <2>2. moved = Len(f[lo - 1]) /\ Len(f[hi]) = moved + (len + Growth(inside))
    BY <2>1, Zenon DEF BlockFrom, BlockGrowth
  <2>3. moved \in Int
    BY <1>4, <1>5, <2>2
  <2>4. len \in Int /\ Growth(inside) \in Int
    <3>1. inside \in SUBSET P
      OBVIOUS
    <3> HIDE DEF inside
    <3>2. Growth(inside) \in Int
      BY <1>1, <3>1, GrowthSums
    <3> QED BY <1>1, <3>2
  <2> HIDE DEF moved, len, inside
  <2> QED BY <2>2, <2>3, <2>4
<1>11. BlockDirty(c, P, reach, block) =
         {moved + k : k \in IF SummaryChanges(c, block, inside)
                            THEN 1..(len + Growth(inside))
                            ELSE DirtyAfterPatches(len, local, reach)}
  BY <1>9, Zenon DEF BlockDirty
<1>12. inside \in SUBSET P /\ Growth(inside) \in Int
  <2>1. inside \in SUBSET P
    OBVIOUS
  <2> HIDE DEF inside
  <2> QED BY <1>1, <2>1, GrowthSums
<1>13. /\ moved \in Nat /\ m \in Int /\ b = moved + m /\ 1 <= m /\ m <= len + Growth(inside)
       /\ len \in Int
  <2> DEFINE g == Growth(inside)
             x == Len(f[hi])
  <2>1. /\ moved \in Nat /\ g \in Int /\ x = moved + len + g
        /\ moved < b /\ b <= x /\ len \in Int /\ m = b - moved
    <3>1. Len(f[lo - 1]) \in Nat /\ len \in Int
      BY <1>1, <1>4, <1>5
    <3> QED BY <1>10, <1>12, <3>1
  <2> HIDE DEF g, x, moved, len, m
  <2>2. moved \in Nat /\ m \in Int /\ b = moved + m /\ 1 <= m /\ m <= len + g /\ len \in Int
    BY <2>1
  <2> QED BY <2>2 DEF g
<1>14. m \in DirtyAfterPatches(len, local, reach)
  <2> DEFINE p_1 == Local(p, before)
             less == {q \in inside : q.first < p.first}
             upto == {q \in inside : q.first <= p.first}
  <2>1. ASSUME NEW q \in P
        PROVE  /\ Local(q, before).first = q.first - before
               /\ Local(q, before).last = q.last - before
               /\ q.first \in Int /\ q.first >= 1
    <3>1. DOMAIN q = {"first", "last", "matched", "output"} /\ q.first \in 1..n
      BY <1>1 DEF Apart
    <3> QED BY <3>1 DEF Local
  <2>2. p \in inside /\ p_1 \in local
    BY <1>9
  <2>3. {q \in local : q.first < p_1.first} = {Local(q, before) : q \in less}
    <3>1. ASSUME NEW q \in inside PROVE Local(q, before).first < p_1.first <=> q.first < p.first
      <4>1. q \in P
        OBVIOUS
      <4>2. Local(q, before).first = q.first - before /\ p_1.first = p.first - before
            /\ q.first \in Int /\ p.first \in Int
        BY <2>1, <4>1
      <4> QED BY <1>1, <4>2
    <3> HIDE DEF p_1, inside
    <3> QED BY <3>1
  <2>4. {q \in local : q.first <= p_1.first} = {Local(q, before) : q \in upto}
    <3>1. ASSUME NEW q \in inside PROVE Local(q, before).first <= p_1.first <=> q.first <= p.first
      <4>1. q \in P
        OBVIOUS
      <4>2. Local(q, before).first = q.first - before /\ p_1.first = p.first - before
            /\ q.first \in Int /\ p.first \in Int
        BY <2>1, <4>1
      <4> QED BY <1>1, <4>2
    <3> HIDE DEF p_1, inside
    <3> QED BY <3>1
  <2>5. before \in Int
    BY <1>1
  <2>6. /\ Growth({q \in local : q.first < p_1.first}) = Growth(less)
        /\ Growth({q \in local : q.first <= p_1.first}) = Growth(upto)
        /\ Growth(local) = Growth(inside)
    <3>1. less \in SUBSET P /\ upto \in SUBSET P /\ inside \in SUBSET P
      OBVIOUS
    <3> DEFINE L == less
               U == upto
               I == inside
               k == before
    <3> HIDE DEF L, U, I, k
    <3>2. /\ Growth({Local(q, k) : q \in L}) = Growth(L)
          /\ Growth({Local(q, k) : q \in U}) = Growth(U)
          /\ Growth({Local(q, k) : q \in I}) = Growth(I)
      BY <1>1, <2>5, <3>1, LocalGrowth DEF L, U, I, k
    <3> QED BY <2>3, <2>4, <3>2, Zenon DEF L, U, I, k
  <2> DEFINE first == {q \in P : q.first <= before}
  <2>7. /\ Growth({q \in P : q.first < p.first}) = Growth(first) + Growth(less)
        /\ Growth({q \in P : q.first <= p.first}) = Growth(first) + Growth(upto)
        /\ Growth(first) \in Int /\ Growth(less) \in Int /\ Growth(upto) \in Int
    <3>1. ASSUME NEW q \in P
          PROVE  /\ q.first < p.first <=> q.first <= before \/ (q.first \in lo..hi /\ q.first < p.first)
                 /\ q.first <= p.first <=> q.first <= before \/ (q.first \in lo..hi /\ q.first <= p.first)
                 /\ ~ (q.first <= before /\ q.first \in lo..hi)
      <4>1. q.first \in Int /\ p.first \in lo..hi
        BY <2>1
      <4> QED BY <1>1, <4>1
    <3>2. /\ {q \in P : q.first < p.first} = first \cup less
          /\ {q \in P : q.first <= p.first} = first \cup upto
          /\ first \cap less = {} /\ first \cap upto = {}
          /\ first \in SUBSET P /\ less \in SUBSET P /\ upto \in SUBSET P
      BY <3>1
    <3> DEFINE F == first
               L == less
               U == upto
               X == {q \in P : q.first < p.first}
               Y == {q \in P : q.first <= p.first}
    <3>3. /\ X = F \cup L /\ Y = F \cup U /\ F \cap L = {} /\ F \cap U = {}
          /\ F \in SUBSET P /\ L \in SUBSET P /\ U \in SUBSET P
      BY <3>2
    <3> HIDE DEF F, L, U, X, Y
    <3>4. Growth(X) = Growth(F) + Growth(L) /\ Growth(Y) = Growth(F) + Growth(U)
      <4>a. Parts(X, F, L, P) /\ Parts(Y, F, U, P)
        BY <3>3 DEF Parts
      <4>1. Growth(X) = Growth(F) + Growth(L)
        BY <1>1, <4>a, GrowthParts
      <4>2. Growth(Y) = Growth(F) + Growth(U)
        BY <1>1, <4>a, GrowthParts
      <4> QED BY <4>1, <4>2
    <3>5. Growth(F) \in Int /\ Growth(L) \in Int /\ Growth(U) \in Int
      BY <1>1, <3>3, GrowthSums
    <3> QED BY <3>4, <3>5 DEF F, L, U, X, Y
  <2> DEFINE start_1 == p_1.first + Growth({q \in local : q.first < p_1.first})
             end_1 == p_1.last + Growth({q \in local : q.first <= p_1.first})
             new_1 == len + Growth(local)
  <2>8. start_1 = start - moved /\ end_1 = end - moved
    <3> DEFINE gf == Growth(first)
               gl == Growth(less)
               gu == Growth(upto)
    <3>1. p_1.first = p.first - before /\ p_1.last = p.last - before
      BY <2>1
    <3>2. /\ start = p.first + (gf + gl) /\ end = p.last + (gf + gu) /\ moved = before + gf
          /\ start_1 = (p.first - before) + gl /\ end_1 = (p.last - before) + gu
          /\ gf \in Int /\ gl \in Int /\ gu \in Int
      <4> HIDE DEF p_1
      <4> QED BY <2>6, <2>7, <3>1, Zenon
    <3>3. p.first \in Int /\ p.last \in Int /\ before \in Int
      BY <1>1, <1>2
    <3> DEFINE x == p.first
               y == p.last
    <3>4. /\ start = x + (gf + gl) /\ end = y + (gf + gu) /\ moved = before + gf
          /\ start_1 = (x - before) + gl /\ end_1 = (y - before) + gu
          /\ gf \in Int /\ gl \in Int /\ gu \in Int /\ x \in Int /\ y \in Int /\ before \in Int
      BY <3>2, <3>3
    <3> HIDE DEF gf, gl, gu, start, end, moved, start_1, end_1, before, x, y
    <3> QED BY <3>4
  <2>9. new_1 = len + Growth(inside)
    BY <2>6
  <2>10. /\ start_1 \in Int /\ end_1 \in Int /\ new_1 \in Int
         /\ 1 <= m /\ m <= new_1 /\ start_1 - reach <= m /\ (m <= start_1 \/ m <= end_1)
         /\ m \in Int
    <3> DEFINE g == Growth(inside)
    <3>1. /\ start_1 = start - moved /\ end_1 = end - moved /\ new_1 = len + g /\ g \in Int
          /\ moved \in Nat /\ m \in Int /\ b = moved + m /\ 1 <= m /\ m <= len + g /\ len \in Int
          /\ start \in Int /\ end \in Int /\ start - reach <= b /\ (b <= start \/ b <= end)
      BY <1>7, <1>12, <1>13, <2>8, <2>9
    <3> HIDE DEF g, start, end, moved, start_1, end_1, new_1, len, m
    <3> QED BY <3>1
  <2>11. p_1 \in local
    BY <2>2
  <2>12. /\ start_1 = p_1.first + Growth({q \in local : q.first < p_1.first})
         /\ end_1 = p_1.last + Growth({q \in local : q.first <= p_1.first})
         /\ new_1 = len + Growth(local)
    OBVIOUS
  <2> HIDE DEF start_1, end_1, new_1, p_1, local, len, m
  <2> QED BY <2>10, <2>11, <2>12, RangeDirty
<1>15. b \in BlockDirty(c, P, reach, block)
  <2>1. m \in 1..(len + Growth(inside))
    <3> DEFINE g == Growth(inside)
    <3>1. m \in Int /\ 1 <= m /\ m <= len + g /\ g \in Int /\ len \in Int
      BY <1>12, <1>13
    <3> HIDE DEF g, m, len
    <3>2. m \in 1..(len + g)
      BY <3>1
    <3> QED BY <3>2 DEF g
  <2>2. b = moved + m
    BY <1>13
  <2> HIDE DEF m, moved, len, inside, local, block
  <2> QED BY <1>11, <1>14, <2>1, <2>2
<1>16. BlockDirty(c, P, reach, block) \subseteq DirtyInBlocks(c, P, reach)
  BY <1>9, DirtyOfBlock
<1> QED BY <1>8, <1>15, <1>16

-----------------------------------------------------------------------------
(* Matches in a patched circuit *)

(* What comes of more places is longer. *)
LEMMA PatchMonotone ==
    ASSUME NEW c \in Seq(Ops), NEW P, Apart(P, Len(c)), NEW d, NEW f, PatchJoins(f, c, P, d),
           NEW i \in 0..Len(c), NEW j \in 0..Len(c), i <= j
    PROVE  /\ Len(f[i]) \in Nat /\ Len(f[j]) \in Nat /\ Len(f[i]) <= Len(f[j])
           /\ \A m \in 1..Len(f[i]) : f[j][m] = f[i][m]
<1>1. PlaceByPlace(f, c, P)
  BY PatchSteps
<1>2. InFront(f[i], f[j])
  BY PatchFronts
<1> QED BY <1>1, <1>2 DEF PlaceByPlace, InFront

(* A place in reach of a patch that comes of the same block is dirty. *)
LEMMA NearDirty ==
    ASSUME NEW c \in Seq(Ops), NEW P, Fit(c, P), NEW d, NEW f, PatchJoins(f, c, P, d),
           NEW reach \in Nat, NEW p \in P, NEW i \in 1..Len(c), i <= p.last,
           (i <= p.first /\ SameBlock(c, i, p.first)) \/ p.first <= i,
           NEW b \in Int, Len(f[i - 1]) < b, b <= Len(f[i]), Len(f[p.first - 1]) + 1 - reach <= b
    PROVE  b \in DirtyAfterPatches(Len(c), P, reach) /\ b \in DirtyInBlocks(c, P, reach)
<1> DEFINE n == Len(c)
<1>1. /\ n \in Nat /\ Apart(P, n) /\ p.first \in 1..n /\ p.last \in p.first..n
      /\ SameBlock(c, p.first, p.last)
  BY DEF Fit, Apart
<1>2. c[p.first].gate \in Keyed
  BY <1>1 DEF SameBlock
<1>3. PICK lo, hi : IsBlock(c, lo, hi) /\ p.first \in lo..hi
  BY <1>1, <1>2, BlockOf
<1>4. lo \in 1..n /\ hi \in lo..n
  BY <1>3 DEF IsBlock
<1>5. i \in lo..hi
  <2>1. CASE i <= p.first /\ SameBlock(c, i, p.first)
    BY <1>1, <1>3, <2>1, BlockHolds
  <2>2. CASE p.first <= i
    <3>1. SameBlock(c, p.first, i)
      BY <1>1 DEF SameBlock
    <3> QED BY <1>1, <1>3, <2>2, <3>1, BlockHolds
  <2> QED BY <2>1, <2>2
<1>6. Len(f[lo - 1]) < b /\ b <= Len(f[hi]) /\ b <= Len(f[p.last])
  <2>1. /\ lo - 1 \in 0..n /\ i - 1 \in 0..n /\ lo - 1 <= i - 1
        /\ i \in 0..n /\ hi \in 0..n /\ i <= hi /\ p.last \in 0..n
    BY <1>1, <1>4, <1>5
  <2>2. Len(f[lo - 1]) \in Nat /\ Len(f[i - 1]) \in Nat /\ Len(f[lo - 1]) <= Len(f[i - 1])
    BY <1>1, <2>1, PatchMonotone
  <2>3. Len(f[i]) \in Nat /\ Len(f[hi]) \in Nat /\ Len(f[i]) <= Len(f[hi])
    BY <1>1, <2>1, PatchMonotone
  <2>4. Len(f[p.last]) \in Nat /\ Len(f[i]) <= Len(f[p.last])
    BY <1>1, <2>1, PatchMonotone
  <2> DEFINE u == Len(f[lo - 1])
             v == Len(f[i - 1])
             x == Len(f[i])
             y == Len(f[hi])
             z == Len(f[p.last])
  <2>5. /\ u \in Nat /\ v \in Nat /\ x \in Nat /\ y \in Nat /\ z \in Nat
        /\ u <= v /\ v < b /\ b <= x /\ x <= y /\ x <= z
    BY <2>2, <2>3, <2>4
  <2> HIDE DEF u, v, x, y, z
  <2>6. u < b /\ b <= y /\ b <= z
    BY <2>5
  <2> QED BY <2>6 DEF u, y, z
<1> QED BY <1>3, <1>6, DirtyNear

(* A scan leaves out no anchor that may match.                             *)
LEMMA UnscannedClean ==
    ASSUME NEW c \in Seq(Ops), NEW cfg \in Configs, NEW anchors,
           \A a \in (1..Len(c)) \ anchors : Clean(c, cfg, a),
           NEW i \in (1..Len(c)) \ Scanned(c, anchors)
    PROVE  Clean(c, cfg, i)
<1>1. CASE c[i].gate \notin Keyed
  <2>1. \A r, at : ~ Fires(c, cfg, r, i, at)
    BY <1>1, FiresWithin
  <2> QED BY <2>1, CleanMeans
<1>2. CASE c[i].gate \in Keyed
  <2>1. PICK lo, hi : IsBlock(c, lo, hi) /\ i \in lo..hi
    BY <1>2, BlockOf
  <2>2. lo..hi \in Blocks(c)
    BY <2>1, BlockShape
  <2>3. i \notin anchors
    <3>1. SUFFICES ASSUME i \in anchors PROVE i \in Scanned(c, anchors)
      OBVIOUS
    <3> DEFINE B == lo..hi
    <3>2. i \in B /\ B \in Blocks(c)
      BY <2>1, <2>2
    <3> HIDE DEF B
    <3>3. i \in IF 100 * Cardinality(anchors \cap B) >= ScanPercent * Cardinality(B)
                THEN B ELSE anchors \cap B
      BY <3>1, <3>2, Zenon
    <3> QED BY <3>2, <3>3 DEF Scanned
  <2> QED BY <2>3
<1> QED BY <1>1, <1>2

(* What d shows from b to last is what c shows s earlier. *)
SeenBefore(c, d, a, b, s, last) ==
    \A n \in b..last :
        /\ n - s \in 1..Len(c)
        /\ c[n - s].gate = d[n].gate
        /\ c[n - s].qubit = c[a].qubit <=> d[n].qubit = d[b].qubit

(* So what fires in d fires in c. *)
LEMMA FiresBefore ==
    ASSUME NEW c \in Seq(Ops), NEW d \in Seq(Ops), NEW cfg \in Configs, NEW r, NEW at,
           NEW a \in 1..Len(c), NEW b \in 1..Len(d), Fires(d, cfg, r, b, at),
           SeenBefore(c, d, a, b, b - a, at[Len(r.source)])
    PROVE  Fires(c, cfg, r, a, Earlier(at, Len(r.source), b - a))
<1> DEFINE s == b - a
<1>1. s \in Int /\ s = b - a
  OBVIOUS
<1>2. \A n \in b..at[Len(r.source)] :
        /\ n - s \in 1..Len(c)
        /\ c[n - s].gate = d[n].gate
        /\ c[n - s].qubit = c[a].qubit <=> d[n].qubit = d[b].qubit
  BY DEF SeenBefore
<1>3. Fires(c, cfg, r, a, Earlier(at, Len(r.source), s))
  <2> HIDE DEF s
  <2> QED BY <1>1, <1>2, FiresShifted
<1> QED BY <1>3

(* After a round, an anchor that is not dirty is clean: a match there      *)
(* looks at nothing but what was there before, and would have been         *)
(* patched or was known not to match.                                      *)
LEMMA RoundClean ==
    ASSUME NEW c \in Seq(Ops), NEW cfg \in Configs, NEW anchors,
           \A a \in (1..Len(c)) \ anchors : Clean(c, cfg, a),
           NEW P \in Selections(Candidates(c, Keys(c), cfg, Scanned(c, anchors))),
           NEW d \in Seq(Ops), d = Patched(c, P, [p \in P |-> p.output]),
           NEW dirty, dirty \in {DirtyAfterPatches(Len(c), P, Reach(cfg)),
                                 DirtyInBlocks(c, P, Reach(cfg))},
           NEW b \in (1..Len(d)) \ dirty
    PROVE  Clean(d, cfg, b)
<1> DEFINE n == Len(c)
           reach == Reach(cfg)
           scanned == Scanned(c, anchors)
<1>1. n \in Nat /\ reach \in Nat /\ b \in 1..Len(d) /\ scanned \in SUBSET (1..Len(c))
  BY ReachBounds, ScannedInside
<1>2. Fit(c, P) /\ Apart(P, n)
  BY <1>1, SelectedApart DEF Fit
<1>3. PICK f : PatchJoins(f, c, P, d)
  BY <1>2, PatchedJoins
<1>4. /\ PlaceByPlace(f, c, P) /\ f[n] = d
      /\ \A i \in 0..n : f[i] \in Seq(Ops) /\ Len(f[i]) \in Nat
  <2>1. PlaceByPlace(f, c, P)
    BY <1>2, <1>3, PatchSteps
  <2> QED BY <1>3, <2>1 DEF PlaceByPlace, PatchJoins
<1>5. SUFFICES ASSUME NEW r, NEW at, Fires(d, cfg, r, b, at) PROVE FALSE
  BY <1>1, CleanMeans
<1> DEFINE last == at[Len(r.source)]
<1>6. /\ last \in b..Len(d) /\ last <= b + reach
      /\ \A m \in b..last : d[m].gate \in Keyed
  BY <1>1, <1>5, FiresWithin
<1>7. PICK i \in 1..n : Len(f[i - 1]) < b /\ b <= Len(f[i])
  BY <1>1, <1>2, <1>3, PatchFronts
<1>8. ASSUME NEW p \in P, NEW k \in 1..n, k <= p.last,
             (k <= p.first /\ SameBlock(c, k, p.first)) \/ p.first <= k,
             Len(f[k - 1]) < b, b <= Len(f[k]), Len(f[p.first - 1]) + 1 - reach <= b
      PROVE  FALSE
  <2>1. b \in Int
    BY <1>1
  <2>2. b \in DirtyAfterPatches(Len(c), P, reach) /\ b \in DirtyInBlocks(c, P, reach)
    BY <1>1, <1>2, <1>3, <1>8, <2>1, NearDirty
  <2> QED BY <2>2
<1>9. Outside(P, i)
  <2>1. SUFFICES ASSUME NEW p \in P, i \in p.first..p.last PROVE FALSE
    BY DEF Outside
  <2>2. p.first \in 1..n /\ p.first <= i /\ i <= p.last
    BY <1>2, <2>1 DEF Apart
  <2>3. Len(f[p.first - 1]) + 1 - reach <= b
    <3>1. p.first - 1 \in 0..n /\ i - 1 \in 0..n /\ p.first - 1 <= i - 1
      BY <1>1, <2>2
    <3>2. /\ Len(f[p.first - 1]) \in Nat /\ Len(f[i - 1]) \in Nat
          /\ Len(f[p.first - 1]) <= Len(f[i - 1])
      BY <1>2, <1>3, <3>1, PatchMonotone
    <3> QED BY <1>1, <1>7, <3>2
  <2> QED BY <1>7, <1>8, <2>2, <2>3
<1>10. Len(f[i]) = b /\ d[b] = c[i]
  <2>1. Len(f[i]) = Len(f[i - 1]) + 1 /\ f[i][Len(f[i])] = c[i]
    BY <1>4, <1>9 DEF PlaceByPlace
  <2>2. i - 1 \in 0..n /\ i \in 0..n /\ n \in 0..n /\ i <= n
    BY <1>1
  <2>3. Len(f[i - 1]) \in Nat /\ Len(f[i]) \in Nat
    BY <1>4, <2>2
  <2>4. Len(f[i]) = b
    BY <1>1, <1>7, <2>1, <2>3
  <2>5. \A m \in 1..Len(f[i]) : f[n][m] = f[i][m]
    BY <1>2, <1>3, <2>2, PatchMonotone
  <2>6. f[n][b] = f[i][b]
    BY <1>1, <2>4, <2>5
  <2> QED BY <1>4, <2>1, <2>4, <2>6
<1> DEFINE Same(k) == /\ i + k \in 1..n /\ Outside(P, i + k)
                      /\ Len(f[i + k]) = b + k /\ d[b + k] = c[i + k]
<1>11. ASSUME NEW k \in 1..(last - b), \A m \in 0..(k - 1) : Same(m) PROVE Same(k)
  <2> DEFINE j == i + (k - 1)
  <2>1. /\ k - 1 \in 0..(k - 1) /\ k \in Nat /\ b \in Nat /\ last \in Nat /\ last <= Len(d)
        /\ Len(d) \in Nat
    BY <1>1, <1>6
  <2>2. Same(k - 1)
    BY <1>11, <2>1
  <2>3. j \in 1..n /\ Outside(P, j) /\ Len(f[j]) = b + (k - 1)
    BY <2>2
  <2>4. j + 1 \in 1..n /\ j + 1 = i + k
    <3> DEFINE J == Len(f[j])
    <3>1. /\ j \in 1..n /\ J = b + (k - 1) /\ n \in Nat /\ i \in Nat
          /\ k <= last - b /\ j = i + (k - 1)
      BY <1>1, <1>11, <2>1, <2>3
    <3>2. J # Len(d)
      <4> HIDE DEF J, j, last, n
      <4> QED BY <2>1, <3>1
    <3>3. j = n => J = Len(d)
      <4> HIDE DEF j, n
      <4> QED BY <1>4
    <3> HIDE DEF J, n, j
    <3>4. j # n
      BY <3>2, <3>3
    <3> QED BY <2>1, <3>1, <3>4
  <2>5. Outside(P, j + 1)
    <3>1. SUFFICES ASSUME NEW p \in P, j + 1 \in p.first..p.last PROVE FALSE
      BY DEF Outside
    <3>2. p.first \in 1..n /\ p.last \in p.first..n
      BY <1>2 DEF Apart
    <3>3. p.first = j + 1
      <4>1. j \notin p.first..p.last
        BY <2>3 DEF Outside
      <4> HIDE DEF j
      <4> QED BY <2>3, <2>4, <3>1, <3>2, <4>1
    <3>4. SameBlock(c, i, p.first)
      <4>1. ASSUME NEW m \in i..j PROVE c[m].gate \in Keyed
        <5>1. m - i \in 0..(k - 1) /\ i + (m - i) = m /\ b + (m - i) \in b..last
          BY <1>6, <2>1, <4>1
        <5>2. d[b + (m - i)] = c[m]
          BY <1>11, <5>1
        <5> QED BY <1>6, <5>1, <5>2
      <4>2. c[p.first].gate \in Keyed
        BY <1>2, <3>2 DEF Fit, SameBlock
      <4>3. \A m \in i..p.first : m \in i..j \/ m = p.first
        BY <2>1, <3>3
      <4> QED BY <4>1, <4>2, <4>3 DEF SameBlock
    <3>5. Len(f[p.first - 1]) + 1 - reach <= b
      <4>1. p.first - 1 = j
        BY <2>3, <3>3
      <4>2. Len(f[p.first - 1]) = b + (k - 1)
        BY <2>3, <4>1
      <4>3. k \in Int /\ b \in Int /\ last \in Int /\ reach \in Int /\ k <= last - b /\ last <= b + reach
        BY <1>1, <1>6, <1>11, <2>1
      <4> HIDE DEF last, reach
      <4>4. (b + (k - 1)) + 1 - reach <= b
        BY <4>3
      <4> QED BY <4>2, <4>4
    <3>6. i <= p.first /\ i <= p.last
      BY <2>1, <3>2, <3>3
    <3> QED BY <1>7, <1>8, <3>4, <3>5, <3>6
  <2>6. Len(f[j + 1]) = Len(f[j]) + 1 /\ f[j + 1][Len(f[j + 1])] = c[j + 1]
    <3>1. (j + 1) - 1 = j
      BY <2>3
    <3> HIDE DEF j
    <3>2. Len(f[j + 1]) = Len(f[(j + 1) - 1]) + 1 /\ f[j + 1][Len(f[j + 1])] = c[j + 1]
      BY <1>4, <2>4, <2>5 DEF PlaceByPlace
    <3> QED BY <3>1, <3>2, Zenon
  <2>7. Len(f[j + 1]) = b + k
    BY <2>1, <2>3, <2>6
  <2>8. d[b + k] = c[j + 1]
    <3>1. j + 1 \in 0..n /\ n \in 0..n /\ j + 1 <= n
      BY <1>1, <2>4
    <3>2. \A m \in 1..Len(f[j + 1]) : f[n][m] = f[j + 1][m]
      BY <1>2, <1>3, <3>1, PatchMonotone
    <3>3. b + k \in 1..Len(f[j + 1])
      BY <1>1, <2>1, <2>7
    <3>4. f[n][b + k] = f[j + 1][b + k]
      BY <3>2, <3>3
    <3> QED BY <1>4, <2>6, <2>7, <3>4
  <2> QED BY <2>4, <2>5, <2>7, <2>8
<1>12. \A k \in 0..(last - b) : Same(k)
  <2> DEFINE Bad == {k \in 0..(last - b) : ~ Same(k)}
  <2>1. SUFFICES ASSUME Bad # {} PROVE FALSE
    OBVIOUS
  <2>2. PICK k \in Bad : \A m \in Bad : k <= m
    <3>1. Bad \subseteq Nat
      OBVIOUS
    <3> HIDE DEF Bad
    <3> QED BY <2>1, <3>1, LeastNatural
  <2>3. k \in 0..(last - b) /\ ~ Same(k)
    OBVIOUS
  <2>4. last - b \in Int
    BY <1>1, <1>6
  <2>5. CASE k = 0
    <3>1. i + 0 = i /\ b + 0 = b
      BY <1>1
    <3>2. Same(0)
      BY <1>9, <1>10, <3>1
    <3> QED BY <2>3, <2>5, <3>2
  <2>6. CASE k # 0
    <3>1. k \in 1..(last - b)
      BY <2>3, <2>4, <2>6
    <3>2. ASSUME NEW m \in 0..(k - 1) PROVE Same(m)
      <4>1. m \in 0..(last - b) /\ ~ (k <= m)
        BY <2>4, <3>1, <3>2
      <4>2. m \notin Bad
        BY <2>2, <4>1
      <4> QED BY <4>1, <4>2
    <3> HIDE DEF Same
    <3> QED BY <1>11, <2>3, <3>1, <3>2
  <2> QED BY <2>5, <2>6
<1> DEFINE s == b - i
           back == Earlier(at, Len(r.source), s)
<1>13. ASSUME NEW k \in b..last
       PROVE  /\ k - s \in 1..n /\ c[k - s] = d[k] /\ Outside(P, k - s)
  <2>1. k - b \in 0..(last - b) /\ b + (k - b) = k /\ i + (k - b) = k - s
    BY <1>1, <1>6
  <2>2. Same(k - b)
    BY <1>12, <2>1
  <2> QED BY <2>1, <2>2
<1>14. Fires(c, cfg, r, i, back)
  <2>1. s \in Int /\ s = b - i /\ b - s = i /\ b \in b..last
    BY <1>1, <1>6
  <2>2. c[i] = d[b]
    BY <1>10
  <2>3. SeenBefore(c, d, i, b, s, last)
    <3>1. SUFFICES ASSUME NEW k \in b..last
                   PROVE  /\ k - s \in 1..Len(c)
                          /\ c[k - s].gate = d[k].gate
                          /\ c[k - s].qubit = c[i].qubit <=> d[k].qubit = d[b].qubit
      <4> HIDE DEF s, last
      <4> QED BY DEF SeenBefore
    <3>2. k - s \in 1..n /\ c[k - s] = d[k]
      BY <1>13
    <3> HIDE DEF s
    <3> QED BY <2>2, <3>2
  <2>4. Fires(c, cfg, r, i, Earlier(at, Len(r.source), b - i))
    <3> HIDE DEF n
    <3>1. i \in 1..Len(c) /\ b \in 1..Len(d)
      BY <1>1 DEF n
    <3>2. SeenBefore(c, d, i, b, b - i, at[Len(r.source)])
      BY <2>3
    <3> HIDE DEF last, s
    <3> QED BY <1>5, <3>1, <3>2, FiresBefore
  <2> QED BY <2>4
<1> HIDE DEF back
<1>15. CASE i \in scanned
  <2> DEFINE q == Replacing(c, r, i, back)
  <2>1. q \in Candidates(c, Keys(c), cfg, scanned)
    <3>1. q \in CandidatesAt(c, Keys(c), cfg, i)
      BY <1>14, FiringIsCandidate
    <3> HIDE DEF q
    <3> QED BY <1>15, <3>1 DEF Candidates
  <2>2. q.first = i /\ q.last = last - s
    <3>1. q.first = i /\ q.last = back[Len(r.source)]
      BY DEF Replacing
    <3>2. Len(r.source) \in 1..Len(r.source)
      <4>1. Len(r.source) \in Nat \ {0}
        BY <1>1, <1>5, FiresWithin
      <4> QED BY <4>1
    <3> QED BY <3>1, <3>2 DEF back, Earlier
  <2>3. q \notin P
    <3>1. SUFFICES ASSUME q \in P PROVE FALSE
      OBVIOUS
    <3>2. q.first \in q.first..q.last
      BY <1>2, <3>1 DEF Apart
    <3> QED BY <1>9, <2>2, <3>1, <3>2 DEF Outside
  <2>4. PICK p \in P : Overlap(p, q)
    <3> HIDE DEF q
    <3> QED BY <2>1, <2>3 DEF Selections
  <2>5. p.first <= last - s /\ i <= p.last
    BY <2>2, <2>4 DEF Overlap
  <2>6. p.first \in 1..n /\ p.last \in p.first..n
    BY <1>2 DEF Apart
  <2>7. CASE p.first <= i
    <3>1. i \in p.first..p.last
      BY <2>5, <2>6, <2>7
    <3> QED BY <1>9, <3>1 DEF Outside
  <2>8. CASE ~ (p.first <= i)
    <3>1. p.first + s \in b..last /\ (p.first + s) - s = p.first
      BY <1>1, <1>6, <2>5, <2>6, <2>8
    <3>2. Outside(P, p.first)
      BY <1>13, <3>1
    <3>3. p.first \in p.first..p.last
      BY <2>6
    <3> QED BY <3>2, <3>3 DEF Outside
  <2> QED BY <2>7, <2>8
<1>16. CASE i \notin scanned
  <2>1. Clean(c, cfg, i)
    <3> HIDE DEF reach, s
    <3> QED BY <1>16, UnscannedClean
  <2> QED BY <1>14, <2>1, CleanMeans
<1> QED BY <1>15, <1>16

-----------------------------------------------------------------------------
(* Anchors *)

(* Nothing matches at an anchor that the certificate in force, or the      *)
(* rewrite being executed, leaves out.                                     *)
AnchorsClean ==
    /\ run = Idle /\ cert # None /\ cert.revision = revision =>
        \A a \in (1..Len(current)) \ cert.pending : Clean(current, cert.config, a)
    /\ run # Idle =>
        \A a \in (1..Len(current)) \ run.anchors : Clean(current, run.config, a)

(* The pending anchors after an edit (map_and_invalidate_ranges). *)
LEMMA EditedAnchors ==
    ASSUME WInv, AnchorsClean, run = Idle, NEW es \in Scripts(current),
           NEW names \in [0..Len(es) -> Renamings], NEW edits,
           current' = After(current, es, names),
           cert' = IF NextRevision = 0 THEN None ELSE Edited(es, edits, current'), run' = run
    PROVE  AnchorsClean'
<1>1. CASE cert' = None
  BY <1>1 DEF AnchorsClean
<1>2. CASE cert' # None
  <2>1. /\ cert # None /\ cert.revision = revision
        /\ cert' = [cert EXCEPT
            !.revision = NextRevision,
            !.pending = Mapped(@, es, Len(current), cert.reach),
            !.histogram = Recounted(@, current, es),
            !.workspace = IF @ = None THEN None ELSE Respliced(@, es)]
    BY <1>2 DEF Edited
  <2>2. /\ cert = [x \in DOMAIN cert |-> cert[x]]
        /\ DOMAIN cert = {"revision", "config", "reach", "pending", "histogram", "workspace"}
        /\ cert.config \in Configs /\ cert.reach = Reach(cert.config)
        /\ current \in Seq(Ops)
    BY <2>1 DEF WInv, CertShape
  <2>3. /\ cert'.config = cert.config
        /\ cert'.pending = Mapped(cert.pending, es, Len(current), Reach(cert.config))
    BY <2>1, <2>2
  <2>4. \A a \in (1..Len(current)) \ cert.pending : Clean(current, cert.config, a)
    BY <2>1 DEF AnchorsClean
  <2>5. ASSUME NEW a \in (1..Len(current')) \ cert'.pending
        PROVE  Clean(current', cert'.config, a)
    <3>1. a \in (1..Len(current'))
                  \ Mapped(cert.pending, es, Len(current), Reach(cert.config))
      BY <2>3
    <3>2. Clean(current', cert.config, a)
      BY <2>2, <2>4, <3>1, EditedClean
    <3> QED BY <2>3, <3>2
  <2> QED BY <2>5 DEF AnchorsClean
<1> QED BY <1>1, <1>2

(* A pass that hands over its edits. *)
LEMMA PassAnchors == ASSUME WInv, AnchorsClean, Pass PROVE AnchorsClean'
<1>1. PICK es \in Scripts(current), edits \in Sources :
        \E names \in [0..Len(es) -> Renamings] : Adopt(es, names, edits)
  BY DEF Pass
<1>2. PICK names \in [0..Len(es) -> Renamings] : Adopt(es, names, edits)
  BY <1>1
<1>3. /\ run = Idle /\ run' = run
      /\ current' = After(current, es, names)
      /\ cert' = IF NextRevision = 0 THEN None ELSE Edited(es, edits, current')
  BY <1>2 DEF Pass, Adopt
<1> QED BY <1>3, EditedAnchors

(* A proof the session was not told to carry over is out of date. *)
LEMMA OptimizeNativeAnchors == ASSUME WInv, AnchorsClean, OptimizeNative PROVE AnchorsClean'
<1>1. /\ run = Idle /\ run' = run /\ revision' = NextRevision
      /\ cert' = IF NextRevision = 0 THEN None ELSE cert
  BY DEF OptimizeNative
<1>2. /\ revision \in Nat /\ revision' \in 0..(Revisions - 1)
      /\ NextRevision # 0 => revision' = revision + 1
  BY <1>1, NextRevisionInRange, Widths DEF WInv
<1>3. cert' # None => cert'.revision # revision'
  <2>1. SUFFICES ASSUME cert' # None PROVE cert'.revision # revision'
    OBVIOUS
  <2>2. cert' = cert /\ NextRevision # 0
    BY <1>1, <2>1
  <2>3. cert.revision \in 0..revision
    BY <2>1, <2>2 DEF WInv, CertShape
  <2> QED BY <1>2, <2>2, <2>3
<1> QED BY <1>1, <1>3 DEF AnchorsClean

(* Canonicalization hands over a linear script. *)
LEMMA CanonicalizeAnchors == ASSUME WInv, AnchorsClean, Canonicalize PROVE AnchorsClean'
<1>1. run = Idle /\ run' = run
  BY DEF Canonicalize
<1>2. CASE UNCHANGED <<current, revision, cert>>
  BY <1>1, <1>2 DEF AnchorsClean
<1>3. CASE ~ UNCHANGED <<current, revision, cert>>
  <2>1. PICK es \in Scripts(current) :
          /\ current' = After(current, es, [i \in 0..Len(es) |-> Identity])
          /\ cert' = IF NextRevision = 0 THEN None ELSE Edited(es, "Linear", current')
    BY <1>3 DEF Canonicalize
  <2> QED BY <1>1, <2>1, IdentityRenames, EditedAnchors
<1> QED BY <1>2, <1>3

(* A rewrite leaves out what the proof leaves out, if it serves the        *)
(* rewrite's configuration (config_is_proven_subset).                      *)
LEMMA ProofServes ==
    ASSUME WInv, AnchorsClean, run = Idle, NEW cfg \in Configs, Applies(cfg),
           NEW a \in (1..Len(current)) \ cert.pending
    PROVE  Clean(current, cfg, a)
<1>1. /\ cert # None /\ cert.revision = revision
      /\ ConfigSubset(cfg, cert.config, cert.histogram)
  BY DEF Applies
<1>2. cert.config \in Configs /\ cert.histogram = Histogram(current) /\ current \in Seq(Ops)
  BY <1>1 DEF WInv, CertShape, WorkspaceIsCurrent
<1>3. Clean(current, cert.config, a)
  BY <1>1 DEF AnchorsClean
<1> QED BY <1>1, <1>2, <1>3, CleanSubset

(* A rewrite starts with the anchors that are not known to be clean. *)
LEMMA RewriteAnchors ==
    ASSUME WInv, AnchorsClean, NEW cfg \in Configs, Rewrite(cfg) PROVE AnchorsClean'
<1>1. run = Idle /\ UNCHANGED <<current, revision, cert, canonical, unchanged>>
  BY DEF Rewrite
<1> DEFINE kept == Applies(cfg) /\ Eligible(current)
           keys == IF kept /\ cert.workspace # None /\ Len(cert.workspace) = Len(current)
                   THEN cert.workspace ELSE Keys(current)
<1>2. PICK incremental \in BOOLEAN :
        run' = [config |-> cfg, round |-> 1, changed |-> FALSE,
                incremental |-> Eligible(current) \/ incremental,
                anchors |-> IF kept THEN cert.pending ELSE 1..Len(current),
                keys |-> keys]
  BY DEF Rewrite
<1>3. ASSUME NEW a \in (1..Len(current)) \ (IF kept THEN cert.pending ELSE 1..Len(current))
      PROVE  Clean(current, cfg, a)
  <2>1. Applies(cfg) /\ a \in (1..Len(current)) \ cert.pending
    BY <1>3
  <2> QED BY <1>1, <2>1, ProofServes
<1> HIDE DEF keys, kept
<1>4. run'.round = 1 /\ run'.config = cfg
      /\ run'.anchors = IF kept THEN cert.pending ELSE 1..Len(current)
  BY <1>2
<1>5. run' # Idle
  BY <1>4 DEF Idle
<1>6. \A a \in (1..Len(current')) \ run'.anchors : Clean(current', run'.config, a)
  BY <1>1, <1>3, <1>4
<1> QED BY <1>5, <1>6 DEF AnchorsClean

(* A round dirties what it may have changed. *)
LEMMA RoundAnchors == ASSUME WInv, AnchorsClean, Round, WInv' PROVE AnchorsClean'
<1>1. run # Idle
  BY DEF Round
<1>2. PICK P \in Selections(Patches) :
        /\ current' = Patched(current, P, [p \in P |-> p.output])
        /\ run' = [run EXCEPT
                    !.round = @ + 1,
                    !.changed = TRUE,
                    !.keys = Patched(@, P, [p \in P |-> Keys(p.output)]),
                    !.anchors = IF Eligible(current)
                                THEN DirtyAfterPatches(Len(current), P, Reach(run.config))
                                ELSE IF run.incremental
                                THEN DirtyInBlocks(current, P, Reach(run.config))
                                ELSE 1..Len(current')]
  BY DEF Round
<1>3. /\ run = [x \in DOMAIN run |-> run[x]]
      /\ DOMAIN run = {"config", "round", "changed", "incremental", "anchors", "keys"}
      /\ run.round \in Nat \ {0} /\ run.config \in Configs /\ run.keys = Keys(current)
      /\ current \in Seq(Ops) /\ current' \in Seq(Ops)
  BY <1>1 DEF WInv, RunFields, WorkspaceIsCurrent
<1>4. /\ run'.round = run.round + 1 /\ run'.config = run.config
      /\ \/ run'.anchors = 1..Len(current')
         \/ run'.anchors = DirtyAfterPatches(Len(current), P, Reach(run.config))
         \/ run'.anchors = DirtyInBlocks(current, P, Reach(run.config))
  BY <1>2, <1>3
<1>5. run' # Idle
  BY <1>3, <1>4 DEF Idle
<1>6. \A a \in (1..Len(current)) \ run.anchors : Clean(current, run.config, a)
  BY <1>1 DEF AnchorsClean
<1>7. P \in Selections(Candidates(current, Keys(current), run.config,
                                  Scanned(current, run.anchors)))
  BY <1>3, Zenon DEF Patches
<1>8. ASSUME NEW b \in (1..Len(current')) \ run'.anchors
      PROVE  Clean(current', run'.config, b)
  <2> DEFINE cfg == run.config
             anchors == run.anchors
             dirty == run'.anchors
  <2>1. /\ cfg \in Configs
        /\ \A a \in (1..Len(current)) \ anchors : Clean(current, cfg, a)
        /\ P \in Selections(Candidates(current, Keys(current), cfg,
                                       Scanned(current, anchors)))
        /\ b \in (1..Len(current')) \ dirty
    BY <1>3, <1>6, <1>7, <1>8
  <2>2. dirty \in {DirtyAfterPatches(Len(current), P, Reach(cfg)),
                   DirtyInBlocks(current, P, Reach(cfg))}
    BY <1>4, <1>8
  <2> HIDE DEF cfg, anchors, dirty
  <2>3. Clean(current', cfg, b)
    BY <1>2, <1>3, <2>1, <2>2, RoundClean
  <2> QED BY <1>4, <2>3 DEF cfg
<1> QED BY <1>5, <1>8 DEF AnchorsClean

(* The proof recorded at a fixpoint: the last scan found nothing. *)
LEMMA RecordAnchors == ASSUME WInv, AnchorsClean, Record PROVE AnchorsClean'
<1>1. run # Idle /\ run' = Idle /\ current' = current
  BY DEF Record
<1>2. CASE cert' = None
  BY <1>1, <1>2 DEF AnchorsClean
<1>3. CASE cert' # None
  <2>1. /\ Patches = {}
        /\ cert' = [revision |-> revision', config |-> run.config,
                    reach |-> Reach(run.config), pending |-> {},
                    histogram |-> Histogram(current),
                    workspace |-> IF Eligible(current) THEN run.keys ELSE None]
    BY <1>3 DEF Record
  <2>2. cert'.config = run.config /\ cert'.pending = {}
    BY <2>1
  <2>3. /\ run.config \in Configs /\ run.keys = Keys(current) /\ current \in Seq(Ops)
        /\ \A a \in (1..Len(current)) \ run.anchors : Clean(current, run.config, a)
    BY <1>1 DEF WInv, RunFields, WorkspaceIsCurrent, AnchorsClean
  <2>4. Candidates(current, Keys(current), run.config, Scanned(current, run.anchors)) = {}
    BY <2>1, <2>3, Zenon DEF Patches
  <2>5. ASSUME NEW a \in 1..Len(current) PROVE Clean(current, run.config, a)
    <3>1. CASE a \in Scanned(current, run.anchors)
      BY <2>4, <3>1 DEF Candidates, Clean
    <3>2. CASE a \notin Scanned(current, run.anchors)
      <4> DEFINE cfg == run.config
                 anchors == run.anchors
      <4>1. /\ cfg \in Configs /\ a \in (1..Len(current)) \ Scanned(current, anchors)
            /\ \A b \in (1..Len(current)) \ anchors : Clean(current, cfg, b)
        BY <2>3, <3>2
      <4> HIDE DEF cfg, anchors
      <4>2. Clean(current, cfg, a)
        BY <2>3, <4>1, UnscannedClean
      <4> QED BY <4>2 DEF cfg
    <3> QED BY <3>1, <3>2
  <2> QED BY <1>1, <2>2, <2>5 DEF AnchorsClean
<1> QED BY <1>2, <1>3

(* So every step keeps them. *)
LEMMA NextAnchors == ASSUME WInv, AnchorsClean, [Next]_vars, WInv' PROVE AnchorsClean'
<1>1. CASE Pass
  BY <1>1, PassAnchors
<1>2. CASE OptimizeNative
  BY <1>2, OptimizeNativeAnchors
<1>3. CASE Canonicalize
  BY <1>3, CanonicalizeAnchors
<1>4. CASE Detach
  BY <1>4 DEF Detach, AnchorsClean
<1>5. CASE \E cfg \in Configs : Rewrite(cfg)
  BY <1>5, RewriteAnchors
<1>6. CASE Round
  BY <1>6, RoundAnchors
<1>7. CASE Record
  BY <1>7, RecordAnchors
<1>8. CASE UNCHANGED vars
  BY <1>8 DEF vars, AnchorsClean
<1> QED BY <1>1, <1>2, <1>3, <1>4, <1>5, <1>6, <1>7, <1>8 DEF Next

(* The invariant is inductive, together with WInv. *)
THEOREM AnchorsInductive == Spec => []AnchorsClean
<1>1. Init => AnchorsClean
  BY DEF Init, AnchorsClean
<1>2. WInv /\ AnchorsClean /\ [Next]_vars /\ WInv' => AnchorsClean'
  BY NextAnchors
<1> QED
  BY WorkspaceInductive, <1>1, <1>2, PTL DEF Spec

(* Whatever passes have edited since the proof, no rule matches at an      *)
(* anchor the next rewrite would skip, under any configuration it accepts  *)
(* the proof for (reusable_proof, take_reconciled_linear_state,            *)
(* map_and_invalidate_ranges, dirty_ranges_after_patches).                 *)
THEOREM SkippedClean == Spec => []SkippedAnchorsAreClean
<1>1. WInv /\ AnchorsClean => SkippedAnchorsAreClean
  <2>1. SUFFICES ASSUME WInv, AnchorsClean, run = Idle, NEW cfg \in Configs, Applies(cfg)
                 PROVE  Candidates(current, Keys(current), cfg,
                                   (1..Len(current)) \ cert.pending) = {}
    BY DEF SkippedAnchorsAreClean
  <2>2. \A a \in (1..Len(current)) \ cert.pending : Clean(current, cfg, a)
    BY <2>1, ProofServes
  <2> QED BY <2>2 DEF Candidates, Clean
<1> QED
  BY WorkspaceInductive, AnchorsInductive, <1>1, PTL

-----------------------------------------------------------------------------
(* Types *)

(* Where an anchor that is kept has moved to is in the new circuit. *)
LEMMA MovedInside ==
    ASSUME NEW c \in Seq(Ops), NEW es \in Scripts(c), NEW names \in [0..Len(es) -> Renamings],
           NEW d, d = After(c, es, names), NEW pending \in SUBSET (1..Len(c))
    PROVE  Moved(pending, es) \subseteq 1..Len(d)
<1> DEFINE len == Len(c)
<1>1. Len(es) \in Nat /\ len \in Nat
  BY ScriptShape
<1>2. SUFFICES ASSUME NEW i \in 1..len, \A k \in 1..Len(es) : i \notin es[k].from..(es[k].to - 1)
               PROVE  i + Shift(es, Cardinality({k \in 1..Len(es) : es[k].to <= i})) \in 1..Len(d)
  BY DEF Moved
<1> DEFINE S == {k \in 0..Len(es) : k = 0 \/ es[k].to <= i}
<1>3. PICK j \in S : \A k \in S : k <= j
  <2>1. S \in SUBSET Nat /\ 0 \in S /\ \A k \in S : k <= Len(es)
    BY <1>1
  <2> HIDE DEF S
  <2>2. Max(S) \in S /\ \A k \in S : k <= Max(S)
    BY <1>1, <2>1, MaxIsGreatest
  <2> QED BY <2>2
<1>4. j \in 0..Len(es) /\ (j = 0 \/ es[j].to <= i)
  OBVIOUS
<1>5. i \in GapFrom(es, j)..GapTo(es, j, len)
  <2>1. GapFrom(es, j) \in 1..(len + 1) /\ GapTo(es, j, len) \in 0..len
    BY <1>4, GapShape
  <2>2. GapFrom(es, j) <= i
    BY <1>4 DEF GapFrom
  <2>3. i <= GapTo(es, j, len)
    <3>1. CASE j = Len(es)
      BY <3>1 DEF GapTo
    <3>2. CASE j # Len(es)
      <4>1. j + 1 \in 1..Len(es) /\ j + 1 \in 0..Len(es) /\ ~ (j + 1 <= j) /\ j + 1 # 0
        BY <1>1, <1>4, <3>2
      <4>2. ~ (es[j + 1].to <= i)
        BY <1>3, <4>1
      <4>3. i \notin es[j + 1].from..(es[j + 1].to - 1)
        BY <1>2, <4>1
      <4>4. es[j + 1].from \in Int /\ es[j + 1].to \in Int
        BY <4>1, ScriptShape
      <4>5. i < es[j + 1].from
        BY <4>2, <4>3, <4>4
      <4> QED BY <3>2, <4>4, <4>5 DEF GapTo
    <3> QED BY <3>1, <3>2
  <2> QED BY <2>1, <2>2, <2>3
<1>6. i + Shift(es, j) \in 1..Len(d)
  BY <1>4, <1>5, GapPlace
<1>7. Cardinality({k \in 1..Len(es) : es[k].to <= i}) = j
  BY <1>4, <1>5, ReplacedBefore
<1> QED BY <1>6, <1>7, Zenon

(* What an edit script makes pending is in the new circuit. *)
LEMMA MappedInside ==
    ASSUME NEW c \in Seq(Ops), NEW es \in Scripts(c), NEW names \in [0..Len(es) -> Renamings],
           NEW d, d = After(c, es, names), NEW pending \in SUBSET (1..Len(c)), NEW reach \in Nat
    PROVE  Mapped(pending, es, Len(c), reach) \subseteq 1..Len(d)
<1> DEFINE start(i) == es[i].from + Shift(es, i - 1)
           end(i) == Max({start(i), start(i) + Len(es[i].ops) - 1})
           new == Len(c) + Shift(es, Len(es))
           range(i) == Max({1, start(i) - reach})..Min({new, end(i)})
           touched(i) == IF range(i) = {} THEN Max({1, new - reach})..new ELSE range(i)
<1>1. Mapped(pending, es, Len(c), reach)
        = Moved(pending, es) \cup UNION {touched(i) : i \in 1..Len(es)}
  BY DEF Mapped
<1>2. new = Len(d) /\ new \in Nat
  BY ScriptPlaces
<1>3. ASSUME NEW i \in 1..Len(es) PROVE touched(i) \subseteq 1..Len(d)
  <2>1. start(i) \in Int
    BY ScriptPlaces DEF Start
  <2>2. Len(es[i].ops) \in Nat
    <3>1. es[i].ops \in Seq(Ops)
      BY ScriptShape
    <3> QED BY <3>1
  <2> DEFINE s == start(i)
             e == s + Len(es[i].ops) - 1
             u == new - reach
             n == new
  <2>3. s \in Int /\ e \in Int /\ u \in Int /\ s - reach \in Int /\ n \in Nat /\ n = Len(d)
    BY <1>2, <2>1, <2>2
  <2>4. touched(i) = IF Max({1, s - reach})..Min({n, Max({s, e})}) = {}
                     THEN Max({1, u})..n ELSE Max({1, s - reach})..Min({n, Max({s, e})})
    OBVIOUS
  <2> HIDE DEF s, e, u, n, touched, new
  <2> DEFINE far == Max({s, e})
  <2>5. far \in Int
    BY <2>3, GreaterOfTwo
  <2> HIDE DEF far
  <2>6. /\ Max({1, s - reach}) \in Int /\ 1 <= Max({1, s - reach})
        /\ Max({1, u}) \in Int /\ 1 <= Max({1, u})
        /\ Min({n, far}) \in Int /\ Min({n, far}) <= n
    BY <2>3, <2>5, GreaterOfTwo, LesserOfTwo
  <2> DEFINE a == Max({1, s - reach})
             b == Max({1, u})
             z == Min({n, far})
  <2>7. /\ touched(i) = IF a..z = {} THEN b..n ELSE a..z
        /\ a \in Int /\ 1 <= a /\ b \in Int /\ 1 <= b /\ z \in Int /\ z <= n
    BY <2>4, <2>6 DEF far
  <2> HIDE DEF a, b, z
  <2> QED BY <2>3, <2>7
<1>4. Moved(pending, es) \subseteq 1..Len(d)
  BY MovedInside
<1> HIDE DEF touched
<1> QED BY <1>1, <1>3, <1>4

(* What dirty_ranges_after_patches takes is in the new circuit. *)
LEMMA DirtyInside ==
    ASSUME NEW len, NEW P, NEW reach \in Nat, NEW new \in Nat, new = len + Growth(P),
           \A p \in P : OutputFrom(P, p) \in Int /\ SpanTo(P, p) \in Int
    PROVE  DirtyAfterPatches(len, P, reach) \subseteq 1..new
<1> DEFINE range(q) == Max({1, OutputFrom(P, q) - reach})
                         ..Min({new, Max({OutputFrom(P, q), SpanTo(P, q)})})
           ranges == UNION {range(q) : q \in P}
<1>1. DirtyAfterPatches(len, P, reach) = IF ranges = {} THEN 1..Min({new, reach + 1}) ELSE ranges
  BY DEF DirtyAfterPatches, OutputFrom, SpanTo
<1>2. ASSUME NEW p \in P PROVE range(p) \subseteq 1..new
  <2> DEFINE s == OutputFrom(P, p)
             e == SpanTo(P, p)
             far == Max({s, e})
             a == Max({1, s - reach})
             z == Min({new, far})
  <2>1. s \in Int /\ e \in Int
    OBVIOUS
  <2> HIDE DEF s, e
  <2>2. far \in Int
    BY <2>1, GreaterOfTwo
  <2> HIDE DEF far
  <2>3. s - reach \in Int /\ new \in Int
    BY <2>1
  <2>4. a \in Int /\ 1 <= a
    BY <2>3, GreaterOfTwo
  <2>5. z \in Int /\ z <= new
    BY <2>2, <2>3, LesserOfTwo
  <2>6. range(p) = a..z
    BY DEF a, z, far, s, e
  <2> HIDE DEF a, z, range
  <2> QED BY <2>4, <2>5, <2>6
<1>3. Min({new, reach + 1}) \in Int /\ Min({new, reach + 1}) <= new
  <2>1. new \in Int /\ reach + 1 \in Int
    OBVIOUS
  <2> QED BY <2>1, LesserOfTwo
<1> DEFINE z == Min({new, reach + 1})
<1>4. z \in Int /\ z <= new
  BY <1>3
<1>5. 1..z \subseteq 1..new
  <2> HIDE DEF z
  <2> QED BY <1>4
<1> HIDE DEF range
<1> QED BY <1>1, <1>2, <1>5
(* Moving patches does not move them apart, so their ranges are numbers. *)
LEMMA LocalRanges ==
    ASSUME NEW len \in Nat, NEW P, Apart(P, len), NEW Q \in SUBSET P, NEW k \in Int,
           NEW L, L = {Local(p, k) : p \in Q}, NEW m \in L
    PROVE  OutputFrom(L, m) \in Int /\ SpanTo(L, m) \in Int
<1>1. ASSUME NEW R \in SUBSET L PROVE Growth(R) \in Int
  <2> DEFINE S == {p \in Q : Local(p, k) \in R}
  <2>1. R = {Local(p, k) : p \in S}
    OBVIOUS
  <2>2. S \in SUBSET P
    OBVIOUS
  <2> HIDE DEF S
  <2>3. Growth(R) = Growth(S)
    BY <2>1, <2>2, LocalGrowth, Zenon
  <2>4. Growth(S) \in Int
    BY <2>2, GrowthSums
  <2> QED BY <2>3, <2>4
<1>2. m.first \in Int /\ m.last \in Int
  <2>1. PICK p \in Q : m = Local(p, k)
    OBVIOUS
  <2>2. DOMAIN p = {"first", "last", "matched", "output"} /\ p.first \in Int /\ p.last \in Int
    BY DEF Apart
  <2>3. m.first = p.first - k /\ m.last = p.last - k
    BY <2>1, <2>2 DEF Local
  <2> QED BY <2>2, <2>3
<1>3. /\ Growth({q \in L : q.first < m.first}) \in Int
      /\ Growth({q \in L : q.first <= m.first}) \in Int
  BY <1>1
<1> DEFINE x == Growth({q \in L : q.first < m.first})
           y == Growth({q \in L : q.first <= m.first})
<1>4. OutputFrom(L, m) = m.first + x /\ SpanTo(L, m) = m.last + y
  BY DEF OutputFrom, SpanTo
<1>5. x \in Int /\ y \in Int
  BY <1>3
<1> HIDE DEF x, y
<1> QED BY <1>2, <1>4, <1>5

(* What record_next_block_workset takes is in the new circuit. *)
LEMMA DirtyBlocksInside ==
    ASSUME NEW c \in Seq(Ops), NEW P, Fit(c, P), NEW d, NEW f, PatchJoins(f, c, P, d),
           NEW reach \in Nat
    PROVE  DirtyInBlocks(c, P, reach) \subseteq 1..Len(d)
<1>1. DirtyInBlocks(c, P, reach) =
        UNION {BlockDirty(c, P, reach, block_1) :
               block_1 \in {b \in Blocks(c) : \E q \in P : q.first \in b}}
  BY Zenon DEF DirtyInBlocks, BlockDirty, Local
<1>2. SUFFICES ASSUME NEW block \in Blocks(c) PROVE BlockDirty(c, P, reach, block) \subseteq 1..Len(d)
  BY <1>1
<1>3. PICK lo, hi : block = lo..hi /\ IsBlock(c, lo, hi)
  BY BlockShape
<1> DEFINE n == Len(c)
           before == lo - 1
           inside == {q \in P : q.first \in block}
           local == {Local(q, before) : q \in inside}
           moved == before + Growth({q \in P : q.first <= before})
           len == hi - lo + 1
           g == len + Growth(inside)
<1>4. n \in Nat /\ lo \in 1..n /\ hi \in lo..n /\ Apart(P, n)
  BY <1>3 DEF IsBlock, Fit
<1>5. Min(block) = lo /\ Cardinality(block) = len
  <2>1. lo \in Int /\ hi \in Int /\ lo <= hi
    BY <1>4
  <2>2. Min(lo..hi) = lo
    BY <2>1, MinMaxOfInterval
  <2>3. Cardinality(lo..hi) = hi - lo + 1
    BY <2>1, FS_Interval
  <2> QED BY <1>3, <2>2, <2>3
<1>6. moved = Len(f[lo - 1]) /\ Len(f[hi]) = moved + g
  <2>1. Len(f[lo - 1]) = BlockFrom(P, lo) /\ Len(f[hi]) = Len(f[lo - 1]) + BlockGrowth(P, lo, hi)
    BY <1>3, BlockLengths
  <2> QED BY <1>3, <2>1 DEF BlockFrom, BlockGrowth
<1>7. /\ Len(f[lo - 1]) \in Nat /\ Len(f[hi]) \in Nat /\ Len(d) \in Nat
      /\ Len(f[lo - 1]) <= Len(f[hi]) /\ Len(f[hi]) <= Len(d)
  <2>1. lo - 1 \in 0..n /\ hi \in 0..n /\ n \in 0..n /\ lo - 1 <= hi /\ hi <= n
    BY <1>4
  <2>2. Len(f[lo - 1]) \in Nat /\ Len(f[hi]) \in Nat /\ Len(f[lo - 1]) <= Len(f[hi])
    BY <1>4, <2>1, PatchMonotone
  <2>3. Len(f[n]) \in Nat /\ Len(f[hi]) <= Len(f[n])
    BY <1>4, <2>1, PatchMonotone
  <2>4. f[n] = d
    BY DEF PatchJoins
  <2> QED BY <2>2, <2>3, <2>4
<1>8. Growth(inside) \in Int /\ Growth(local) = Growth(inside)
  <2>1. inside \in SUBSET P /\ before \in Int
    BY <1>4
  <2> HIDE DEF inside, before
  <2> QED BY <1>4, <2>1, GrowthSums, LocalGrowth
<1>9. moved \in Nat /\ g \in Nat /\ moved + g <= Len(d)
  <2> DEFINE x == Len(f[lo - 1])
             y == Len(f[hi])
             z == Len(d)
             w == Growth(inside)
  <2>1. /\ x \in Nat /\ y \in Nat /\ z \in Nat /\ x <= y /\ y <= z /\ w \in Int
        /\ moved = x /\ y = moved + g /\ g = len + w /\ len \in Int
    BY <1>4, <1>6, <1>7, <1>8
  <2> HIDE DEF x, y, z, w, moved, g, len
  <2>2. moved \in Nat /\ g \in Nat /\ moved + g <= z
    BY <2>1
  <2> QED BY <2>2 DEF z
<1>10. DirtyAfterPatches(len, local, reach) \subseteq 1..g
  <2>1. inside \in SUBSET P /\ before \in Int
    BY <1>4
  <2>2. ASSUME NEW m \in local PROVE OutputFrom(local, m) \in Int /\ SpanTo(local, m) \in Int
    <3>1. local = {Local(p, before) : p \in inside}
      OBVIOUS
    <3> HIDE DEF local, inside, before
    <3> QED BY <1>4, <2>1, <2>2, <3>1, LocalRanges
  <2>3. g \in Nat /\ g = len + Growth(local)
    BY <1>8, <1>9
  <2> HIDE DEF local, len, g
  <2> QED BY <2>2, <2>3, DirtyInside
<1>11. ASSUME NEW b \in BlockDirty(c, P, reach, block) PROVE b \in 1..Len(d)
  <2> HIDE DEF g, moved, len, n
  <2>1. PICK m : /\ m \in IF SummaryChanges(c, block, inside) THEN 1..g
                          ELSE DirtyAfterPatches(len, local, reach)
                 /\ b = moved + m
    BY <1>5, <1>11, Zenon DEF BlockDirty, g, moved, len
  <2>2. m \in 1..g
    BY <1>10, <2>1
  <2> QED BY <1>7, <1>9, <2>1, <2>2
<1> QED BY <1>11

(* Pending and scanned anchors are positions, counts are not negative. *)
Ranges ==
    /\ unchanged \in BOOLEAN
    /\ cert # None => \A g \in Keyed : cert.histogram[g] >= 0
    /\ run = Idle /\ cert # None /\ cert.revision = revision =>
        cert.pending \in SUBSET (1..Len(current))
    /\ run # Idle => run.anchors \in SUBSET (1..Len(current))

(* Counts are not negative. *)
LEMMA CountsPositive ==
    ASSUME NEW c \in Seq(Ops), NEW g \in Keyed PROVE Histogram(c)[g] >= 0
<1> DEFINE S == {i \in 1..Len(c) : c[i].gate = g}
<1>1. Histogram(c)[g] = Cardinality(S)
  BY DEF Histogram
<1>2. S \in SUBSET (1..Len(c)) /\ Len(c) \in Nat
  OBVIOUS
<1> HIDE DEF S
<1>3. Cardinality(S) \in Nat
  BY <1>2, SizeIsNatural
<1> QED BY <1>1, <1>3

(* The certificate after an edit. *)
LEMMA EditedRanges ==
    ASSUME WInv, WInv', Ranges, run = Idle, NEW es \in Scripts(current),
           NEW names \in [0..Len(es) -> Renamings], NEW edits,
           current' = After(current, es, names), revision' = NextRevision,
           cert' = IF NextRevision = 0 THEN None ELSE Edited(es, edits, current'), run' = run,
           unchanged' \in BOOLEAN
    PROVE  Ranges'
<1>1. CASE cert' = None
  BY <1>1 DEF Ranges
<1>2. CASE cert' # None
  <2>1. /\ cert # None /\ cert.revision = revision
        /\ cert' = [cert EXCEPT
            !.revision = NextRevision,
            !.pending = Mapped(@, es, Len(current), cert.reach),
            !.histogram = Recounted(@, current, es),
            !.workspace = IF @ = None THEN None ELSE Respliced(@, es)]
    BY <1>2 DEF Edited
  <2>2. /\ cert = [x \in DOMAIN cert |-> cert[x]]
        /\ DOMAIN cert = {"revision", "config", "reach", "pending", "histogram", "workspace"}
        /\ cert.config \in Configs /\ cert.reach = Reach(cert.config)
        /\ current \in Seq(Ops) /\ current' \in Seq(Ops)
    BY <2>1 DEF WInv, CertShape
  <2>3. /\ cert'.revision = revision'
        /\ cert'.pending = Mapped(cert.pending, es, Len(current), cert.reach)
    BY <2>1, <2>2
  <2>4. cert.pending \in SUBSET (1..Len(current)) /\ cert.reach \in Nat
    BY <2>1, <2>2, ReachBounds DEF Ranges
  <2>5. cert'.pending \in SUBSET (1..Len(current'))
    BY <2>2, <2>3, <2>4, MappedInside
  <2>6. cert'.histogram = Histogram(current')
    BY <1>2, <2>3 DEF WInv, WorkspaceIsCurrent
  <2>7. \A g \in Keyed : cert'.histogram[g] >= 0
    BY <2>2, <2>6, CountsPositive
  <2> QED BY <2>5, <2>7 DEF Ranges
<1> QED BY <1>1, <1>2

(* A pass that hands over its edits. *)
LEMMA PassRanges == ASSUME WInv, WInv', Ranges, Pass PROVE Ranges'
<1>1. PICK es \in Scripts(current), edits \in Sources :
        \E names \in [0..Len(es) -> Renamings] : Adopt(es, names, edits)
  BY DEF Pass
<1>2. PICK names \in [0..Len(es) -> Renamings] : Adopt(es, names, edits)
  BY <1>1
<1>3. /\ run = Idle /\ run' = run /\ revision' = NextRevision
      /\ current' = After(current, es, names)
      /\ cert' = IF NextRevision = 0 THEN None ELSE Edited(es, edits, current')
  BY <1>2 DEF Pass, Adopt
<1>4. unchanged' \in BOOLEAN
  BY <1>2 DEF Adopt
<1> QED BY <1>3, <1>4, EditedRanges

(* The session is not told, and its proof is out of date. *)
LEMMA OptimizeNativeRanges == ASSUME WInv, Ranges, OptimizeNative PROVE Ranges'
<1>1. /\ run = Idle /\ run' = run /\ revision' = NextRevision /\ unchanged' = FALSE
      /\ cert' = IF NextRevision = 0 THEN None ELSE cert
  BY DEF OptimizeNative
<1>2. /\ revision \in Nat /\ revision' \in 0..(Revisions - 1)
      /\ NextRevision # 0 => revision' = revision + 1
  BY <1>1, NextRevisionInRange, Widths DEF WInv
<1>3. cert' # None => cert'.revision # revision' /\ cert' = cert
  <2>1. SUFFICES ASSUME cert' # None PROVE cert'.revision # revision' /\ cert' = cert
    OBVIOUS
  <2>2. cert' = cert /\ NextRevision # 0
    BY <1>1, <2>1
  <2>3. cert.revision \in 0..revision
    BY <2>1, <2>2 DEF WInv, CertShape
  <2> QED BY <1>2, <2>2, <2>3
<1> QED BY <1>1, <1>3 DEF Ranges

(* Canonicalization hands over a linear script. *)
LEMMA CanonicalizeRanges == ASSUME WInv, WInv', Ranges, Canonicalize PROVE Ranges'
<1>1. run = Idle /\ run' = run /\ unchanged' = TRUE
  BY DEF Canonicalize
<1>2. CASE UNCHANGED <<current, revision, cert>>
  BY <1>1, <1>2 DEF Ranges
<1>3. CASE ~ UNCHANGED <<current, revision, cert>>
  <2>1. PICK es \in Scripts(current) :
          /\ current' = After(current, es, [i \in 0..Len(es) |-> Identity])
          /\ revision' = NextRevision
          /\ cert' = IF NextRevision = 0 THEN None ELSE Edited(es, "Linear", current')
    BY <1>3 DEF Canonicalize
  <2> QED BY <1>1, <2>1, IdentityRenames, EditedRanges
<1> QED BY <1>2, <1>3

(* A rewrite scans the pending anchors, or all. *)
LEMMA RewriteRanges == ASSUME WInv, Ranges, NEW cfg \in Configs, Rewrite(cfg) PROVE Ranges'
<1>1. run = Idle /\ UNCHANGED <<current, revision, cert, canonical, unchanged>>
  BY DEF Rewrite
<1> DEFINE kept == Applies(cfg) /\ Eligible(current)
           keys == IF kept /\ cert.workspace # None /\ Len(cert.workspace) = Len(current)
                   THEN cert.workspace ELSE Keys(current)
<1>2. PICK incremental \in BOOLEAN :
        run' = [config |-> cfg, round |-> 1, changed |-> FALSE,
                incremental |-> Eligible(current) \/ incremental,
                anchors |-> IF kept THEN cert.pending ELSE 1..Len(current),
                keys |-> keys]
  BY DEF Rewrite
<1>3. (IF kept THEN cert.pending ELSE 1..Len(current)) \in SUBSET (1..Len(current))
  BY <1>1 DEF Ranges, Applies
<1> HIDE DEF keys, kept
<1>4. run'.round = 1
      /\ run'.anchors = IF kept THEN cert.pending ELSE 1..Len(current)
  BY <1>2
<1>5. run' # Idle
  BY <1>4 DEF Idle
<1> QED BY <1>1, <1>3, <1>4, <1>5 DEF Ranges

(* A round dirties positions of the patched circuit. *)
LEMMA RoundRanges == ASSUME WInv, WInv', Ranges, Round PROVE Ranges'
<1>1. run # Idle /\ UNCHANGED <<revision, cert, canonical, unchanged>>
  BY DEF Round
<1>2. PICK P \in Selections(Patches) :
        /\ current' = Patched(current, P, [p \in P |-> p.output])
        /\ run' = [run EXCEPT
                    !.round = @ + 1,
                    !.changed = TRUE,
                    !.keys = Patched(@, P, [p \in P |-> Keys(p.output)]),
                    !.anchors = IF Eligible(current)
                                THEN DirtyAfterPatches(Len(current), P, Reach(run.config))
                                ELSE IF run.incremental
                                THEN DirtyInBlocks(current, P, Reach(run.config))
                                ELSE 1..Len(current')]
  BY DEF Round
<1>3. /\ run = [x \in DOMAIN run |-> run[x]]
      /\ DOMAIN run = {"config", "round", "changed", "incremental", "anchors", "keys"}
      /\ run.round \in Nat \ {0} /\ run.config \in Configs /\ run.keys = Keys(current)
      /\ current \in Seq(Ops) /\ current' \in Seq(Ops)
  BY <1>1 DEF WInv, RunFields, WorkspaceIsCurrent
<1>4. /\ run'.round = run.round + 1
      /\ \/ run'.anchors = 1..Len(current')
         \/ run'.anchors = DirtyAfterPatches(Len(current), P, Reach(run.config))
         \/ run'.anchors = DirtyInBlocks(current, P, Reach(run.config))
  BY <1>2, <1>3
<1>5. run' # Idle
  BY <1>3, <1>4 DEF Idle
<1> DEFINE cfg == run.config
           reach == Reach(cfg)
           scanned == Scanned(current, run.anchors)
           d == current'
<1>6. /\ P \in Selections(Candidates(current, Keys(current), cfg, scanned))
      /\ cfg \in Configs /\ reach \in Nat /\ scanned \in SUBSET (1..Len(current))
  <2>1. P \in Selections(Candidates(current, Keys(current), cfg, scanned))
    BY <1>3, Zenon DEF Patches
  <2> QED BY <1>3, <2>1, ScannedInside, ReachBounds
<1>7. d = Patched(current, P, [p \in P |-> p.output]) /\ d \in Seq(Ops)
  BY <1>2, <1>3
<1> HIDE DEF cfg, reach, scanned, d
<1>8. Fit(current, P) /\ Apart(P, Len(current))
  BY <1>3, <1>6, SelectedApart DEF Fit
<1>9. PICK f : PatchJoins(f, current, P, d)
  BY <1>3, <1>7, <1>8, PatchedJoins
<1>10. DirtyInBlocks(current, P, reach) \subseteq 1..Len(d)
  BY <1>3, <1>6, <1>8, <1>9, DirtyBlocksInside
<1>11. DirtyAfterPatches(Len(current), P, reach) \subseteq 1..Len(d)
  <2>1. ASSUME NEW p \in P PROVE OutputFrom(P, p) \in Int /\ SpanTo(P, p) \in Int
    <3>1. /\ Growth({q \in P : q.first < p.first}) \in Int
          /\ Growth({q \in P : q.first <= p.first}) \in Int
      <4>1. Len(current) \in Nat
        BY <1>3
      <4> QED BY <1>8, <4>1, GrowthSums
    <3>2. p.first \in Int /\ p.last \in Int
      BY <1>8 DEF Apart
    <3> DEFINE x == Growth({q \in P : q.first < p.first})
               y == Growth({q \in P : q.first <= p.first})
    <3>3. OutputFrom(P, p) = p.first + x /\ SpanTo(P, p) = p.last + y
      BY DEF OutputFrom, SpanTo
    <3>4. x \in Int /\ y \in Int
      BY <3>1
    <3> HIDE DEF x, y
    <3> QED BY <3>2, <3>3, <3>4
  <2>2. Len(d) \in Nat /\ (P # {} => Len(d) = Len(current) + Growth(P))
    BY <1>3, <1>7, <1>8, <1>9, PatchEnds
  <2>3. Len(d) = Len(current) + Growth(P)
    <3>1. CASE P # {}
      BY <2>2, <3>1
    <3>2. CASE P = {}
      <4> DEFINE n == Len(current)
      <4>1. n \in 0..n /\ Between(P, n)
        BY <1>3, <3>2 DEF Between
      <4>2. f[n] = d /\ {p \in P : p.first <= n} = P
        BY <1>9, <3>2 DEF PatchJoins
      <4>3. Len(f[n]) = n + Growth({p \in P : p.first <= n})
        BY <1>3, <1>8, <1>9, <4>1, PatchLength
      <4> QED BY <4>2, <4>3, Zenon
    <3> QED BY <3>1, <3>2
  <2> QED BY <1>6, <2>1, <2>2, <2>3, DirtyInside
<1>12. run'.anchors \in SUBSET (1..Len(current'))
  BY <1>4, <1>10, <1>11 DEF d, reach, cfg
<1> QED BY <1>1, <1>5, <1>12 DEF Ranges

(* A proof that is recorded leaves nothing pending. *)
LEMMA RecordRanges == ASSUME WInv, Ranges, Record PROVE Ranges'
<1>1. /\ run # Idle /\ run' = Idle /\ current' = current
      /\ unchanged' = (unchanged /\ ~ run.changed)
  BY DEF Record
<1>2. CASE cert' = None
  BY <1>1, <1>2 DEF Ranges
<1>3. CASE cert' # None
  <2>1. cert' = [revision |-> revision', config |-> run.config,
                 reach |-> Reach(run.config), pending |-> {},
                 histogram |-> Histogram(current),
                 workspace |-> IF Eligible(current) THEN run.keys ELSE None]
    BY <1>3 DEF Record
  <2>2. cert'.pending = {} /\ cert'.histogram = Histogram(current)
    BY <2>1
  <2>3. \A g \in Keyed : cert'.histogram[g] >= 0
    BY <2>2, CountsPositive DEF WInv
  <2> QED BY <1>1, <2>2, <2>3 DEF Ranges
<1> QED BY <1>2, <1>3

(* Every step keeps the ranges. *)
LEMMA NextRanges == ASSUME WInv, Ranges, [Next]_vars, WInv' PROVE Ranges'
<1>1. CASE Pass
  BY <1>1, PassRanges
<1>2. CASE OptimizeNative
  BY <1>2, OptimizeNativeRanges
<1>3. CASE Canonicalize
  BY <1>3, CanonicalizeRanges
<1>4. CASE Detach
  BY <1>4 DEF Detach, Ranges
<1>5. CASE \E cfg \in Configs : Rewrite(cfg)
  BY <1>5, RewriteRanges
<1>6. CASE Round
  BY <1>6, RoundRanges
<1>7. CASE Record
  BY <1>7, RecordRanges
<1>8. CASE UNCHANGED vars
  BY <1>8 DEF vars, Ranges
<1> QED BY <1>1, <1>2, <1>3, <1>4, <1>5, <1>6, <1>7, <1>8 DEF Next

(* The ranges are inductive, together with WInv. *)
LEMMA RangesInductive == Spec => []Ranges
<1>1. Init => Ranges
  BY DEF Init, Ranges
<1>2. WInv /\ Ranges /\ [Next]_vars /\ WInv' => Ranges'
  BY NextRanges
<1> QED
  BY WorkspaceInductive, <1>1, <1>2, PTL DEF Spec

(* Dirty and pending anchors are positions of the circuit they are about,  *)
(* however passes, rounds and wraps of the revision follow one another     *)
(* (dirty_ranges_after_patches, record_next_block_workset,                 *)
(* map_and_invalidate_ranges).                                             *)
THEOREM SessionTypes == Spec => []TypeOK
<1>1. WInv /\ IInv /\ Ranges => TypeOK
  <2>1. SUFFICES ASSUME WInv, IInv, Ranges PROVE TypeOK
    OBVIOUS
  <2>2. /\ current \in Seq(Ops) /\ revision \in 0..(Revisions - 1)
        /\ canonical \in 0..(Revisions - 1) \cup {None} /\ unchanged \in BOOLEAN
    BY <2>1, Widths DEF WInv, IInv, ProofNotAhead, Ranges
  <2>3. ASSUME cert # None
        PROVE  /\ cert.revision \in 0..(Revisions - 1) /\ cert.config \in Configs
               /\ cert.revision = revision /\ run = Idle => cert.pending \subseteq 1..Len(current)
               /\ \A g \in Keyed : cert.histogram[g] >= 0
    <3>1. cert.revision \in 0..revision /\ cert.config \in Configs
      BY <2>1, <2>3 DEF WInv, CertShape
    <3>2. cert.revision \in 0..(Revisions - 1)
      BY <2>2, <3>1, Widths
    <3> QED BY <2>1, <2>3, <3>1, <3>2 DEF Ranges
  <2>4. ASSUME run # Idle
        PROVE  run.anchors \subseteq 1..Len(current) /\ Len(run.keys) = Len(current)
    <3>1. run.keys = Keys(current) /\ run.anchors \in SUBSET (1..Len(current))
      BY <2>1, <2>4 DEF WInv, WorkspaceIsCurrent, Ranges
    <3>2. Len(Keys(current)) = Len(current)
      BY <2>2, KeysShape
    <3> QED BY <3>1, <3>2
  <2> QED BY <2>2, <2>3, <2>4 DEF TypeOK
<1> QED
  BY WorkspaceInductive, Inductive, RangesInductive, <1>1, PTL

=============================================================================
