----------------------- MODULE ResourceManagerProofs -----------------------
(***************************************************************************)
(* Proofs about ResourceManager, for any number of managers and any values *)
(* of the bounds, and about its user McGateDecomposer, for any circuit.    *)
(* The former use no assumption of the latter.                             *)
(***************************************************************************)
EXTENDS McGateDecomposer, FiniteSetTheorems, TLAPS

-----------------------------------------------------------------------------
(* Sets of identifiers *)

\* A non-empty bounded set of identifiers has a greatest element.
LEMMA GreatestExists ==
    ASSUME NEW N \in Nat, NEW S, S \subseteq 0 .. N, S # {}
    PROVE  \E q \in S : \A r \in S : r <= q
<1> DEFINE T == {N - q : q \in S}
<1>1. \A q \in S : q \in Nat /\ q <= N /\ N - q \in Nat
  OBVIOUS
<1>2. T \subseteq Nat /\ T # {}
  BY <1>1
<1>3. PICK x \in T : \A y \in T : ~ (<<y, x>> \in OpToRel(<, Nat))
  <2> HIDE DEF T
  <2> QED BY <1>2, NatLessThanWellFounded, WFMin
<1>4. PICK q \in S : x = N - q
  OBVIOUS
<1>5. ASSUME NEW r \in S PROVE r <= q
  <2>1. N - r \in T
    OBVIOUS
  <2>2. ~ (N - r < N - q)
    BY <1>1, <1>3, <1>4, <2>1 DEF OpToRel
  <2> QED BY <1>1, <2>2
<1> QED BY <1>5

\* Qubit identifiers are finitely many naturals.
LEMMA QubitFinite ==
    /\ IsFiniteSet(Qubit)
    /\ Qubit \subseteq Nat
    /\ \A S \in SUBSET Qubit : IsFiniteSet(S) /\ Cardinality(S) \in Nat
<1>1. IsFiniteSet(Qubit) /\ Qubit \subseteq Nat
  BY FS_Interval, BoundsAreNaturals DEF Qubit
<1> QED BY <1>1, FS_Subset, FS_CardinalityType

\* The first n elements of a set of identifiers are at most n.
LEMMA LowestBound ==
    ASSUME NEW S \in SUBSET Qubit, NEW n \in Nat
    PROVE  /\ Lowest(S, n) \in SUBSET S
           /\ Cardinality(Lowest(S, n)) <= n
<1>1. Lowest(S, n) \in SUBSET S
  BY DEF Lowest
<1>2. CASE Lowest(S, n) = {}
  BY <1>1, <1>2, FS_EmptySet
<1>3. CASE Lowest(S, n) # {}
  <2> DEFINE L == Lowest(S, n)
  <2>1. PICK x \in L : \A r \in L : r <= x
    BY <1>1, <1>3, GreatestExists, BoundsAreNaturals DEF Qubit
  <2> DEFINE B == {r \in S : r < x}
  <2>2. Cardinality(B) < n
    BY DEF Lowest
  <2>3. B \in SUBSET Qubit /\ x \notin B
    <3>1. x \in Nat
      BY <1>1, QubitFinite
    <3> QED BY <3>1
  <2>4. Cardinality(B \cup {x}) = Cardinality(B) + 1
    BY <2>3, QubitFinite, FS_AddElement
  <2>5. L \subseteq B \cup {x}
    <3> SUFFICES ASSUME NEW r \in L, r # x PROVE r \in B
      OBVIOUS
    <3>1. r \in S /\ r \in Nat /\ x \in Nat
      BY <1>1, QubitFinite
    <3> QED BY <2>1, <3>1
  <2>6. IsFiniteSet(B \cup {x}) /\ Cardinality(B) \in Nat
    BY <2>3, QubitFinite, FS_AddElement
  <2>7. Cardinality(L) <= Cardinality(B \cup {x})
    <3> HIDE DEF L, B
    <3> QED BY <2>5, <2>6, FS_Subset
  <2>8. Cardinality(L) \in Nat
    BY <1>1, QubitFinite
  <2>9. Cardinality(L) <= n
    <3> HIDE DEF L, B
    <3> QED BY <2>2, <2>4, <2>6, <2>7, <2>8
  <2> QED BY <1>1, <2>9
<1> QED BY <1>1, <1>2, <1>3

-----------------------------------------------------------------------------
(* What a preview answers *)

\* The block of fresh identifiers starts after every registered one.
LEMMA FirstFreshAbove ==
    ASSUME TypeOK, NEW m \in Managers
    PROVE  /\ FirstFreshId(m) \in Nat
           /\ \A r \in Registered(m) : r < FirstFreshId(m)
<1>1. Registered(m) \in SUBSET Qubit
  BY DEF Registered
<1>2. CASE Registered(m) = {}
  BY <1>2 DEF FirstFreshId
<1>3. CASE Registered(m) # {}
  <2>1. \E q \in Registered(m) : \A r \in Registered(m) : r <= q
    BY <1>1, <1>3, GreatestExists, BoundsAreNaturals DEF Qubit
  <2> DEFINE top == CHOOSE q \in Registered(m) : \A r \in Registered(m) : r <= q
  <2>2. top \in Registered(m) /\ \A r \in Registered(m) : r <= top
    BY <2>1
  <2>3. FirstFreshId(m) = 1 + top
    BY <1>3 DEF FirstFreshId
  <2>4. \A r \in Registered(m) : r \in Nat
    BY <1>1, QubitFinite
  <2> HIDE DEF top
  <2> QED BY <2>2, <2>3, <2>4
<1> QED BY <1>2, <1>3

\* A selection holds free, allowed qubits of its origin, no more than asked.
LEMMA SelectOriginFacts ==
    ASSUME NEW m \in Managers, NEW o, NEW req, NEW n \in Nat
    PROVE  /\ SelectOrigin(m, o, req, n) \in SUBSET Qubit
           /\ SelectOrigin(m, o, req, n) \subseteq WithOrigin(m, o)
           /\ SelectOrigin(m, o, req, n) \cap leased[m] = {}
           /\ SelectOrigin(m, o, req, n) \cap req.excluded = {}
           /\ Cardinality(SelectOrigin(m, o, req, n)) \in Nat
           /\ Cardinality(SelectOrigin(m, o, req, n)) <= n
<1> DEFINE F == (WithOrigin(m, o) \ leased[m]) \ req.excluded
<1>1. F \in SUBSET Qubit
  BY DEF WithOrigin
<1>2. Lowest(F, n) \in SUBSET F /\ Cardinality(Lowest(F, n)) <= n
  BY <1>1, LowestBound
<1>3. SelectOrigin(m, o, req, n) = Lowest(F, n)
  BY DEF SelectOrigin
<1>4. Cardinality(Lowest(F, n)) \in Nat
  BY <1>1, <1>2, QubitFinite
<1> QED BY <1>1, <1>2, <1>3, <1>4

\* A clean preview reuses free ancillas of the manager and adds the shortage
\* above every known identifier, within policy and capacity.
LEMMA CleanPlanFacts ==
    ASSUME TypeOK, CleanSupply, NEW m \in Managers, NEW req \in Requests,
           WellFormed(m, req), CleanFeasible(m, req)
    PROVE  /\ CleanReuse(m, req) \subseteq WithOrigin(m, "CompilerAllocated")
           /\ CleanReuse(m, req) \cap (leased[m] \cup req.excluded) = {}
           /\ CleanFresh(m, req) \in SUBSET Qubit
           /\ CleanFresh(m, req) \cap Registered(m) = {}
           /\ CleanFresh(m, req) # {} => phase[m] # "PostLayout"
           /\ Cardinality(CleanReuse(m, req) \cup CleanFresh(m, req)) = req.count
           /\ FitsTotal(m, Cardinality(CleanFresh(m, req)))
           /\ Cardinality(WithOrigin(m, "CompilerAllocated") \cup CleanFresh(m, req))
                 <= MaxClean
<1> DEFINE R == CleanReuse(m, req)
           K == CleanShortage(m, req)
           F == CleanFresh(m, req)
           A == WithOrigin(m, "CompilerAllocated")
           G == Registered(m)
           z == FirstFreshId(m)
<1>1. req.count \in Nat /\ req.excluded \in SUBSET G
  BY RequestsAreTyped DEF Requests, WellFormed
<1>2. /\ R \subseteq A /\ R \in SUBSET Qubit
      /\ R \cap leased[m] = {} /\ R \cap req.excluded = {}
      /\ Cardinality(R) \in Nat /\ Cardinality(R) <= req.count
  BY <1>1, SelectOriginFacts DEF CleanReuse
<1>3. K \in Nat /\ K = req.count - Cardinality(R)
  <2> HIDE DEF R
  <2>1. K = req.count - Cardinality(R)
    BY DEF CleanShortage, R
  <2> QED BY <1>1, <1>2, <2>1
<1>4. z \in Nat /\ \A r \in G : r < z
  BY FirstFreshAbove
<1>5. F = z .. (z + K - 1)
  BY DEF CleanFresh, FreshQubits
<1>6. A \subseteq G /\ G \in SUBSET Qubit
  BY DEF WithOrigin, Registered
<1> HIDE DEF R, K, F, A, G, z
<1>7. K = 0 => F = {}
  BY <1>4, <1>5
<1>8. F \cap G = {}
  BY <1>4, <1>5, <1>6, QubitFinite
<1>9. IsFiniteSet(F) /\ Cardinality(F) = K
  <2> DEFINE y == z + K - 1
  <2>1. z \in Int /\ y \in Int /\ F = z .. y
    BY <1>3, <1>4, <1>5
  <2>2. /\ IsFiniteSet(z .. y)
        /\ Cardinality(z .. y) = IF z > y THEN 0 ELSE y - z + 1
    <3> HIDE DEF y
    <3> QED BY <2>1, FS_Interval
  <2>3. (IF z > y THEN 0 ELSE y - z + 1) = K
    BY <1>3, <1>4
  <2> QED BY <2>1, <2>2, <2>3
<1>10. /\ IsFiniteSet(R) /\ IsFiniteSet(A) /\ IsFiniteSet(G)
       /\ Cardinality(A) \in Nat /\ Cardinality(G) \in Nat
  BY <1>2, <1>6, QubitFinite
<1>11. \/ K = 0
       \/ /\ phase[m] # "PostLayout" /\ K + Cardinality(A) <= MaxClean
          /\ Cardinality(G) + K <= TotalLimit /\ F \in SUBSET Qubit
  BY DEF CleanFeasible, FitsTotal, K, A, G, F
<1>12. Cardinality(A) <= MaxClean /\ Cardinality(G) <= TotalLimit
  BY DEF CleanSupply, A, G
<1>13. Cardinality(R \cup F) = req.count
  <2>1. R \cap F = {}
    BY <1>2, <1>6, <1>8
  <2>2. Cardinality(R \cup F) = Cardinality(R) + Cardinality(F) - Cardinality({})
    BY <2>1, <1>9, <1>10, FS_Union
  <2> QED BY <2>2, <1>1, <1>2, <1>3, <1>9, FS_EmptySet
<1>14. Cardinality(A \cup F) <= MaxClean
  <2>1. A \cap F = {}
    BY <1>6, <1>8
  <2>2. Cardinality(A \cup F) = Cardinality(A) + Cardinality(F) - Cardinality({})
    BY <2>1, <1>9, <1>10, FS_Union
  <2>3. Cardinality(A \cup F) = Cardinality(A) + K
    BY <2>2, <1>3, <1>9, <1>10, FS_EmptySet
  <2> QED BY <2>3, <1>3, <1>10, <1>11, <1>12, BoundsAreNaturals
<1>15. Cardinality(G) + Cardinality(F) <= TotalLimit
  BY <1>3, <1>9, <1>10, <1>11, <1>12, BoundsAreNaturals
<1>16. F \in SUBSET Qubit /\ (F # {} => phase[m] # "PostLayout")
  BY <1>7, <1>11
<1> QED
  BY <1>2, <1>8, <1>13, <1>14, <1>15, <1>16 DEF FitsTotal, R, F, A, G

\* A dirty preview selects free, allowed, registered qubits only.
LEMMA DirtyPlanFacts ==
    ASSUME TypeOK, NEW m \in Managers, NEW req \in Requests
    PROVE  /\ DirtySelection(m, req) \in SUBSET Qubit
           /\ DirtySelection(m, req) \subseteq Registered(m)
           /\ DirtySelection(m, req) \cap (leased[m] \cup req.excluded) = {}
<1> DEFINE own == SelectOrigin(m, "CompilerAllocated", req, req.count)
           lent == SelectOrigin(m, "Input", req, req.count - Cardinality(own))
<1>1. req.count \in Nat
  BY RequestsAreTyped DEF Requests
<1>2. /\ own \in SUBSET Qubit /\ own \subseteq WithOrigin(m, "CompilerAllocated")
      /\ own \cap leased[m] = {} /\ own \cap req.excluded = {}
      /\ req.count - Cardinality(own) \in Nat
  <2>1. Cardinality(own) \in Nat /\ Cardinality(own) <= req.count
    BY <1>1, SelectOriginFacts
  <2>2. req.count - Cardinality(own) \in Nat
    <3> HIDE DEF own
    <3> QED BY <1>1, <2>1
  <2> QED BY <1>1, <2>2, SelectOriginFacts
<1>3. /\ lent \in SUBSET Qubit /\ lent \subseteq WithOrigin(m, "Input")
      /\ lent \cap leased[m] = {} /\ lent \cap req.excluded = {}
  BY <1>2, SelectOriginFacts
<1>4. DirtySelection(m, req) = own \cup (IF AllowDirty THEN lent ELSE {})
  BY DEF DirtySelection
<1>5. \A o \in Origins : WithOrigin(m, o) \subseteq Registered(m)
  BY DEF WithOrigin, Registered, Origins
<1>6. /\ WithOrigin(m, "CompilerAllocated") \subseteq Registered(m)
      /\ WithOrigin(m, "Input") \subseteq Registered(m)
  BY <1>5 DEF Origins
<1> HIDE DEF own, lent
<1> QED BY <1>2, <1>3, <1>4, <1>6

\* The plan preview returns, whatever the requirement, is well typed, passes
\* validate_plan and stays within the policy when it is committed.
LEMMA PreviewPlanFacts ==
    ASSUME TypeOK, CleanSupply, NEW m \in Managers, NEW req \in Requests,
           WellFormed(m, req), Feasible(m, req), phase[m] # "Absent"
    PROVE  LET plan == PreviewPlan(m, req) IN
           /\ plan \in Plans
           /\ leased[m] \subseteq Registered(m) => ValidPlan(m, plan)
           /\ Cardinality(plan.qubits) = req.count
           /\ plan.qubits \cap req.excluded = {}
           /\ plan.new \subseteq plan.qubits
           /\ plan.requirement = "Dirty" => plan.new = {}
           /\ plan.requirement = "CleanZero" =>
                 plan.qubits \subseteq WithOrigin(m, "CompilerAllocated") \cup plan.new
           /\ Cardinality(WithOrigin(m, "CompilerAllocated") \cup plan.new) <= MaxClean
<1> DEFINE plan == PreviewPlan(m, req)
<1>1. /\ req.requirement \in Requirements /\ req.excluded \subseteq Registered(m)
      /\ revision[m] \in Counter
  BY DEF Requests, TypeOK, WellFormed
<1>2. WithOrigin(m, "CompilerAllocated") \subseteq Registered(m)
  BY DEF WithOrigin, Registered
<1>3. phase[m] # "PostLayout" => phase[m] = "PreLayout"
  BY DEF TypeOK
<1>4. CASE req.requirement = "CleanZero"
  <2>1. CleanFeasible(m, req)
    BY <1>4 DEF Feasible
  <2> DEFINE R == CleanReuse(m, req)
             F == CleanFresh(m, req)
  <2>2. plan = [manager |-> m, requirement |-> "CleanZero", qubits |-> R \cup F,
                new |-> F, revision |-> revision[m], request |-> req]
    BY <1>4 DEF PreviewPlan
  <2>3. /\ R \subseteq WithOrigin(m, "CompilerAllocated") /\ R \in SUBSET Qubit
        /\ R \cap (leased[m] \cup req.excluded) = {}
        /\ F \in SUBSET Qubit /\ F \cap Registered(m) = {}
        /\ F # {} => phase[m] # "PostLayout"
        /\ Cardinality(R \cup F) = req.count
        /\ FitsTotal(m, Cardinality(F))
        /\ Cardinality(WithOrigin(m, "CompilerAllocated") \cup F) <= MaxClean
    <3>1. WithOrigin(m, "CompilerAllocated") \in SUBSET Qubit
      BY DEF WithOrigin
    <3> QED BY <2>1, <3>1, CleanPlanFacts
  <2> HIDE DEF plan, R, F
  <2>4. plan \in Plans
    BY <1>1, <2>2, <2>3 DEF Plans, Requirements
  <2>5. leased[m] \subseteq Registered(m) => ValidPlan(m, plan)
    <3> SUFFICES ASSUME leased[m] \subseteq Registered(m) PROVE ValidPlan(m, plan)
      OBVIOUS
    <3>1. plan.new = F /\ plan.qubits = R \cup F
      BY <2>2
    <3> QED BY <1>2, <1>3, <2>3, <3>1 DEF ValidPlan
  <2>6. plan.qubits \cap req.excluded = {}
    BY <1>1, <2>2, <2>3
  <2>7. /\ Cardinality(plan.qubits) = req.count /\ plan.new \subseteq plan.qubits
        /\ plan.requirement = "CleanZero"
        /\ plan.qubits \subseteq WithOrigin(m, "CompilerAllocated") \cup plan.new
        /\ Cardinality(WithOrigin(m, "CompilerAllocated") \cup plan.new) <= MaxClean
    BY <2>2, <2>3
  <2> QED BY <2>4, <2>5, <2>6, <2>7 DEF plan
<1>5. CASE req.requirement = "Dirty"
  <2>1. Cardinality(DirtySelection(m, req)) = req.count
    BY <1>5 DEF Feasible
  <2>2. plan = [manager |-> m, requirement |-> "Dirty", qubits |-> DirtySelection(m, req),
                new |-> {}, revision |-> revision[m], request |-> req]
    BY <1>5 DEF PreviewPlan
  <2>3. plan \in Plans
    BY <1>1, <2>2, DirtyPlanFacts DEF Plans, Requirements
  <2>4. Cardinality(Registered(m)) \in Nat /\ Cardinality(Registered(m)) <= TotalLimit
    BY QubitFinite DEF CleanSupply, Registered
  <2>5. FitsTotal(m, Cardinality({}))
    BY <2>4, FS_EmptySet DEF FitsTotal
  <2>6. ValidPlan(m, plan)
    BY <2>2, <2>5, DirtyPlanFacts DEF ValidPlan
  <2>7. WithOrigin(m, "CompilerAllocated") \cup plan.new = WithOrigin(m, "CompilerAllocated")
    BY <2>2
  <2> QED BY <2>1, <2>2, <2>3, <2>6, <2>7, DirtyPlanFacts DEF CleanSupply
<1> QED BY <1>1, <1>4, <1>5 DEF Requirements

\* The answer to a request depends on the manager's phase, origins, leased
\* index and revision, and on nothing else.
LEMMA AnswerStable ==
    ASSUME NEW m \in Managers, NEW req,
           phase'[m] = phase[m], origin'[m] = origin[m],
           leased'[m] = leased[m], revision'[m] = revision[m]
    PROVE  /\ WellFormed(m, req)' <=> WellFormed(m, req)
           /\ Feasible(m, req)' <=> Feasible(m, req)
           /\ PreviewPlan(m, req)' = PreviewPlan(m, req)
<1>1. Registered(m)' = Registered(m) /\ \A o : WithOrigin(m, o)' = WithOrigin(m, o)
  BY DEF Registered, WithOrigin
<1>2. \A o, n : SelectOrigin(m, o, req, n)' = SelectOrigin(m, o, req, n)
  BY <1>1 DEF SelectOrigin, Lowest
<1>3. FirstFreshId(m)' = FirstFreshId(m)
  BY <1>1 DEF FirstFreshId
<1>4. CleanReuse(m, req)' = CleanReuse(m, req)
  BY <1>2 DEF CleanReuse
<1>5. CleanShortage(m, req)' = CleanShortage(m, req)
  BY <1>4 DEF CleanShortage
<1>6. CleanFresh(m, req)' = CleanFresh(m, req)
  BY <1>3, <1>5 DEF CleanFresh, FreshQubits
<1>7. CleanFeasible(m, req)' <=> CleanFeasible(m, req)
  BY <1>1, <1>5, <1>6 DEF CleanFeasible, FitsTotal
<1>8. DirtySelection(m, req)' = DirtySelection(m, req)
  BY <1>2 DEF DirtySelection
<1>9. WellFormed(m, req)' <=> WellFormed(m, req)
  BY <1>1 DEF WellFormed
<1>10. Feasible(m, req)' <=> Feasible(m, req)
  BY <1>7, <1>8 DEF Feasible
<1>11. PreviewPlan(m, req)' = PreviewPlan(m, req)
  BY <1>4, <1>6, <1>8 DEF PreviewPlan
<1> QED BY <1>9, <1>10, <1>11

-----------------------------------------------------------------------------
(* The inductive invariant *)

\* No caller holds a plan of a revision its manager has not reached.
PlansNotAhead ==
    \A plan \in plans : plan.revision <= revision[plan.manager]

\* Nothing is known, leased or planned by a manager that does not exist yet.
AbsentIsEmpty ==
    \A m \in Managers : phase[m] = "Absent" =>
        /\ WithOrigin(m, "CompilerAllocated") = {}
        /\ active[m] = {} /\ leased[m] = {}
        /\ \A plan \in plans : plan.manager # m

IInv ==
    /\ TypeOK
    /\ LeasesExclusive
    /\ CleanSupply
    /\ FreshPlanIsCurrentAnswer
    /\ PlanMeetsRequest
    /\ PlansNotAhead
    /\ AbsentIsEmpty

\* A plan that passes the checks of commit is still preview's answer.
LEMMA CommittedPlanFacts ==
    ASSUME IInv, NEW m \in Managers, NEW plan \in plans,
           phase[m] # "Absent", CommitChecks(m, plan)
    PROVE  /\ plan \in Plans
           /\ plan.new \subseteq plan.qubits
           /\ plan.requirement = "CleanZero" =>
                 plan.qubits \subseteq WithOrigin(m, "CompilerAllocated") \cup plan.new
           /\ Cardinality(WithOrigin(m, "CompilerAllocated") \cup plan.new) <= MaxClean
           /\ plan.new \cap circuit = {}
           /\ plan.qubits \subseteq Registered(m) \cup plan.new
           /\ plan.qubits \cap leased[m] = {}
           /\ FitsTotal(m, Cardinality(plan.new))
<1>1. plan \in Plans /\ plan.request \in Requests
  BY DEF IInv, TypeOK, Plans
<1>2. plan.manager = m /\ Fresh(plan)
  BY DEF CommitChecks, Fresh
<1>3. /\ WellFormed(m, plan.request) /\ Feasible(m, plan.request)
      /\ plan = PreviewPlan(m, plan.request)
  BY <1>2 DEF IInv, FreshPlanIsCurrentAnswer
<1>4. /\ plan.new \subseteq plan.qubits
      /\ plan.requirement = "CleanZero" =>
            plan.qubits \subseteq WithOrigin(m, "CompilerAllocated") \cup plan.new
      /\ Cardinality(WithOrigin(m, "CompilerAllocated") \cup plan.new) <= MaxClean
  BY <1>1, <1>3, PreviewPlanFacts DEF IInv
<1> QED BY <1>1, <1>4 DEF CommitChecks, ValidPlan

\* Every operation keeps the types.
LEMMA TypeStep == IInv /\ [Next]_vars => TypeOK'
<1> SUFFICES ASSUME IInv, [Next]_vars PROVE TypeOK'
  OBVIOUS
<1> USE DEF IInv, TypeOK
<1>1. ASSUME NEW m \in Managers, FromCircuit(m) PROVE TypeOK'
  BY <1>1 DEF FromCircuit, Origins
<1>2. ASSUME NEW m \in Managers, NEW req \in Requests, Preview(m, req) PROVE TypeOK'
  <2>1. PreviewPlan(m, req) \in Plans
    BY <1>2, PreviewPlanFacts DEF Preview
  <2> QED BY <1>2, <2>1 DEF Preview, manager
<1>3. ASSUME NEW m \in Managers, NEW plan \in plans, Commit(m, plan) PROVE TypeOK'
  <2> DEFINE lease == LeaseOf(plan, nextLeaseId[m])
  <2>1. plan \in Plans /\ plan.manager = m /\ CommitChecks(m, plan)
    BY <1>3, CommittedPlanFacts DEF Commit, CommitChecks
  <2>2. lease \in Leases
    BY <2>1 DEF LeaseOf, Leases, Plans
  <2>3. revision[m] + 1 \in Counter /\ nextLeaseId[m] + 1 \in Counter
    BY <2>1, BoundsAreNaturals DEF CommitChecks, CanAdvance, Counter
  <2>4. revision' \in [Managers -> Counter] /\ nextLeaseId' \in [Managers -> Counter]
    BY <1>3, <2>3 DEF Commit, Advance
  <2>5. /\ active' \in [Managers -> SUBSET Leases]
        /\ leases' \in SUBSET Leases
    <3> HIDE DEF lease
    <3>1. /\ active' = [active EXCEPT ![m] = {l \in @ : l.id # lease.id} \cup {lease}]
          /\ leases' = leases \cup {lease}
      BY <1>3 DEF Commit, lease
    <3> QED BY <2>2, <3>1
  <2>6. /\ origin' \in [Managers -> [Qubit -> Origins \cup {"None"}]]
        /\ leased' \in [Managers -> SUBSET Qubit]
        /\ circuit' \in SUBSET Qubit
    BY <1>3, <2>1 DEF Commit, Plans, Origins
  <2> QED BY <1>3, <2>4, <2>5, <2>6 DEF Commit
<1>4. ASSUME NEW m \in Managers, NEW lease \in leases, Release(m, lease) PROVE TypeOK'
  <2>1. revision[m] + 1 \in Counter
    BY <1>4, BoundsAreNaturals DEF Release, ReleaseChecks, CanAdvance, Counter
  <2> QED BY <1>4, <2>1 DEF Release, Advance
<1>5. ASSUME NEW m \in Managers, EnterPostLayout(m) PROVE TypeOK'
  <2>1. revision[m] + 1 \in Counter
    BY <1>5, BoundsAreNaturals DEF EnterPostLayout, CanAdvance, Counter
  <2> QED BY <1>5, <2>1 DEF EnterPostLayout, Advance
<1>6. ASSUME NEW plan \in plans, DropPlan(plan) PROVE TypeOK'
  BY <1>6 DEF DropPlan, manager
<1>7. ASSUME NEW q \in OwnerQubits, AddQubit(q) PROVE TypeOK'
  BY <1>7, InputsAreQubits DEF AddQubit, manager
<1>8. CASE UNCHANGED vars
  BY <1>8 DEF vars, manager
<1> QED BY <1>1, <1>2, <1>3, <1>4, <1>5, <1>6, <1>7, <1>8 DEF Next

\* Leases of one manager stay disjoint and identified.
LEMMA ExclusiveStep == IInv /\ [Next]_vars => LeasesExclusive'
<1> SUFFICES ASSUME IInv, [Next]_vars, NEW n \in Managers
             PROVE  IdsNeverReused(n)' /\ LeasesPartitionIndex(n)'
  BY DEF LeasesExclusive
<1>0. IdsNeverReused(n) /\ LeasesPartitionIndex(n) /\ TypeOK
  BY DEF IInv, LeasesExclusive
<1> USE DEF IdsNeverReused, LeasesPartitionIndex
<1>1. ASSUME NEW m \in Managers, FromCircuit(m)
      PROVE  IdsNeverReused(n)' /\ LeasesPartitionIndex(n)'
  <2>1. IdsNeverReused(n)'
    BY <1>0, <1>1 DEF FromCircuit
  <2>2. m = n => leased[n] = {} /\ active[n] = {}
    BY <1>1 DEF IInv, AbsentIsEmpty, FromCircuit
  <2>3. CASE m = n
    <3>1. Registered(n)' \subseteq circuit
      BY <1>0, <1>1, <2>3 DEF FromCircuit, Registered, TypeOK
    <3> QED BY <1>0, <1>1, <2>1, <2>2, <2>3, <3>1 DEF FromCircuit
  <2>4. CASE m # n
    <3>1. Registered(n)' = Registered(n)
      BY <1>0, <1>1, <2>4 DEF FromCircuit, Registered, TypeOK
    <3> QED BY <1>0, <1>1, <2>1, <3>1 DEF FromCircuit
  <2> QED BY <2>3, <2>4
<1>2. ASSUME NEW m \in Managers, NEW plan \in plans, Commit(m, plan)
      PROVE  IdsNeverReused(n)' /\ LeasesPartitionIndex(n)'
  <2> DEFINE lease == LeaseOf(plan, nextLeaseId[m])
  <2>1. /\ plan \in Plans /\ plan.manager = m
        /\ plan.qubits \subseteq Registered(m) \cup plan.new
        /\ plan.qubits \cap leased[m] = {}
    BY <1>2, CommittedPlanFacts DEF Commit, CommitChecks
  <2>2. lease.id = nextLeaseId[m] /\ lease.manager = m /\ lease.qubits = plan.qubits
    BY <2>1 DEF LeaseOf
  <2> HIDE DEF lease
  <2>3. /\ leases' = leases \cup {lease}
        /\ active' = [active EXCEPT ![m] = {l \in @ : l.id # lease.id} \cup {lease}]
        /\ nextLeaseId' = [nextLeaseId EXCEPT ![m] = @ + 1]
        /\ leased' = [leased EXCEPT ![m] = @ \cup plan.qubits]
        /\ circuit' = circuit \cup plan.new
    BY <1>2 DEF Commit, lease
  <2>4. /\ nextLeaseId[n] \in Nat
        /\ nextLeaseId'[n] = IF n = m THEN nextLeaseId[n] + 1 ELSE nextLeaseId[n]
    BY <1>0, <2>3, BoundsAreNaturals DEF TypeOK, Counter
  <2>5. \A l \in leases : l.id \in Nat
    BY <1>0, BoundsAreNaturals DEF TypeOK, Leases, Counter
  <2>6. IdsNeverReused(n)'
    BY <1>0, <2>2, <2>3, <2>4, <2>5
  <2>7. CASE m = n
    <3>1. active'[n] = active[n] \cup {lease}
      <4>1. \A l \in active[n] : l.id # lease.id
        BY <1>0, <2>2, <2>4, <2>5, <2>7
      <4> QED BY <1>0, <2>3, <2>7, <4>1 DEF TypeOK
    <3>2. Registered(n)' = Registered(n) \cup plan.new
      <4>1. origin'[n] = [q \in Qubit |-> IF q \in plan.new THEN "CompilerAllocated"
                                          ELSE origin[n][q]]
        BY <1>0, <1>2, <2>7 DEF Commit, TypeOK
      <4> QED BY <2>1, <4>1 DEF Registered, Plans
    <3>3. leased'[n] = leased[n] \cup plan.qubits
      BY <1>0, <2>3, <2>7 DEF TypeOK
    <3> QED BY <1>0, <2>1, <2>2, <2>3, <2>6, <2>7, <3>1, <3>2, <3>3
  <2>8. CASE m # n
    <3>1. Registered(n)' = Registered(n) /\ active'[n] = active[n] /\ leased'[n] = leased[n]
      BY <1>0, <1>2, <2>3, <2>8 DEF Commit, Registered, TypeOK
    <3> QED BY <1>0, <2>3, <2>6, <3>1
  <2> QED BY <2>7, <2>8
<1>3. ASSUME NEW m \in Managers, NEW lease \in leases, Release(m, lease)
      PROVE  IdsNeverReused(n)' /\ LeasesPartitionIndex(n)'
  <2>1. IdsNeverReused(n)' /\ Registered(n)' = Registered(n) /\ circuit' = circuit
    BY <1>0, <1>3 DEF Release, Registered
  <2>2. CASE m = n
    <3>1. lease \in active[n]
      BY <1>3, <2>2 DEF Release, ReleaseChecks
    <3>2. active'[n] = {l \in active[n] : l.id # lease.id}
      BY <1>0, <1>3, <2>2 DEF Release, TypeOK
    <3>3. active'[n] = active[n] \ {lease}
      BY <1>0, <3>1, <3>2
    <3>4. leased'[n] = leased[n] \ lease.qubits
      BY <1>0, <1>3, <2>2 DEF Release, TypeOK
    <3>5. leases' = leases
      BY <1>3 DEF Release
    <3> QED BY <1>0, <2>1, <3>1, <3>3, <3>4, <3>5
  <2>3. CASE m # n
    <3>1. active'[n] = active[n] /\ leased'[n] = leased[n] /\ leases' = leases
      BY <1>0, <1>3, <2>3 DEF Release, TypeOK
    <3> QED BY <1>0, <2>1, <3>1
  <2> QED BY <2>2, <2>3
<1>4. ASSUME NEW q \in OwnerQubits, AddQubit(q)
      PROVE  IdsNeverReused(n)' /\ LeasesPartitionIndex(n)'
  BY <1>0, <1>4 DEF AddQubit, manager, Registered
<1>5. ASSUME UNCHANGED <<circuit, origin, leased, active, nextLeaseId, leases>>
      PROVE  IdsNeverReused(n)' /\ LeasesPartitionIndex(n)'
  BY <1>0, <1>5 DEF Registered
<1>6. ASSUME NEW m \in Managers,
             EnterPostLayout(m) \/ \E req \in Requests : Preview(m, req)
      PROVE  IdsNeverReused(n)' /\ LeasesPartitionIndex(n)'
  BY <1>5, <1>6 DEF EnterPostLayout, Preview, manager
<1>7. ASSUME NEW plan \in plans, DropPlan(plan)
      PROVE  IdsNeverReused(n)' /\ LeasesPartitionIndex(n)'
  BY <1>5, <1>7 DEF DropPlan, manager
<1>8. CASE UNCHANGED vars
  BY <1>5, <1>8 DEF vars, manager
<1> QED BY <1>1, <1>2, <1>3, <1>4, <1>6, <1>7, <1>8 DEF Next

\* What a manager adds stays its own and within its limits.
LEMMA SupplyStep == IInv /\ [Next]_vars => CleanSupply'
<1> DEFINE Made(m) == WithOrigin(m, "CompilerAllocated")
           Supply(m) == /\ \A l \in active[m] : l.requirement = "CleanZero" =>
                               l.qubits \subseteq Made(m)
                        /\ Cardinality(Made(m)) <= MaxClean
                        /\ Cardinality(Registered(m)) <= TotalLimit
           Private(m, n) == Made(m) \cap Made(n) = {}
<1> SUFFICES ASSUME IInv, [Next]_vars
             PROVE  \A n \in Managers :
                        Supply(n)' /\ \A k \in Managers \ {n} : Private(n, k)'
  BY DEF CleanSupply
<1>0. /\ TypeOK
      /\ \A n \in Managers : /\ Supply(n) /\ LeasesPartitionIndex(n)
                             /\ \A k \in Managers \ {n} : Private(n, k)
  BY DEF IInv, CleanSupply, LeasesExclusive
<1>u. ASSUME NEW n \in Managers, origin'[n] = origin[n],
             \A l \in active'[n] : l \in active[n]
      PROVE  Supply(n)' /\ Made(n)' = Made(n)
  <2>1. Made(n)' = Made(n) /\ Registered(n)' = Registered(n)
    BY <1>u DEF WithOrigin, Registered
  <2> QED BY <1>0, <1>u, <2>1
<1>v. \A n \in Managers : /\ Made(n) \subseteq Registered(n)
                          /\ Registered(n) \subseteq circuit
                          /\ Registered(n) \in SUBSET Qubit
  BY <1>0 DEF LeasesPartitionIndex, WithOrigin, Registered
<1>1. ASSUME NEW m \in Managers, FromCircuit(m)
      PROVE  \A n \in Managers : Supply(n)' /\ \A k \in Managers \ {n} : Private(n, k)'
  <2>1. \A n \in Managers \ {m} : Supply(n)' /\ Made(n)' = Made(n)
    BY <1>0, <1>1, <1>u DEF FromCircuit, TypeOK
  <2>2. Made(m)' = {} /\ Registered(m)' = circuit
    BY <1>0, <1>1 DEF FromCircuit, WithOrigin, Registered, TypeOK
  <2>3. active'[m] = {}
    BY <1>1 DEF FromCircuit, IInv, AbsentIsEmpty
  <2>4. Supply(m)'
    <3>1. Cardinality(Made(m)') <= MaxClean
      BY <2>2, FS_EmptySet, BoundsAreNaturals
    <3>2. Cardinality(Registered(m)') <= TotalLimit
      BY <1>1, <2>2 DEF FromCircuit
    <3> QED BY <2>3, <3>1, <3>2
  <2>5. \A n \in Managers : \A k \in Managers \ {n} : Private(n, k)'
    BY <1>0, <2>1, <2>2
  <2> QED BY <2>1, <2>4, <2>5
<1>2. ASSUME NEW m \in Managers, NEW plan \in plans, Commit(m, plan)
      PROVE  \A n \in Managers : Supply(n)' /\ \A k \in Managers \ {n} : Private(n, k)'
  <2> DEFINE lease == LeaseOf(plan, nextLeaseId[m])
  <2>1. /\ plan \in Plans /\ plan.new \subseteq Qubit
        /\ plan.new \subseteq plan.qubits
        /\ plan.requirement = "CleanZero" => plan.qubits \subseteq Made(m) \cup plan.new
        /\ Cardinality(Made(m) \cup plan.new) <= MaxClean
        /\ plan.new \cap circuit = {}
        /\ FitsTotal(m, Cardinality(plan.new))
    BY <1>2, CommittedPlanFacts DEF Commit, Plans
  <2>2. origin'[m] = [q \in Qubit |-> IF q \in plan.new THEN "CompilerAllocated"
                                      ELSE origin[m][q]]
    BY <1>0, <1>2 DEF Commit, TypeOK
  <2>3. Made(m)' = Made(m) \cup plan.new /\ Registered(m)' = Registered(m) \cup plan.new
    BY <2>1, <2>2 DEF WithOrigin, Registered
  <2>4. \A l \in active'[m] : l \in active[m] \/ l = lease
    BY <1>0, <1>2 DEF Commit, TypeOK
  <2>5. lease.requirement = plan.requirement /\ lease.qubits = plan.qubits
    BY DEF LeaseOf
  <2>6. \A l \in active'[m] : l.requirement = "CleanZero" => l.qubits \subseteq Made(m)'
    BY <1>0, <2>1, <2>3, <2>4, <2>5
  <2>7. Cardinality(Registered(m)') <= TotalLimit
    <3>1. IsFiniteSet(plan.new) /\ IsFiniteSet(Registered(m))
      BY <1>v, <2>1, QubitFinite
    <3>2. plan.new \cap Registered(m) = {}
      BY <1>v, <2>1
    <3>3. Cardinality(Registered(m) \cup plan.new)
            = Cardinality(Registered(m)) + Cardinality(plan.new) - Cardinality({})
      BY <3>1, <3>2, FS_Union
    <3>4. Cardinality(Registered(m)) \in Nat /\ Cardinality(plan.new) \in Nat
      BY <3>1, FS_CardinalityType
    <3> QED BY <2>1, <2>3, <3>3, <3>4, FS_EmptySet DEF FitsTotal
  <2>8. Supply(m)'
    BY <2>1, <2>3, <2>6, <2>7
  <2>9. \A n \in Managers \ {m} : Supply(n)' /\ Made(n)' = Made(n)
    BY <1>0, <1>2, <1>u DEF Commit, TypeOK
  <2>10. \A n \in Managers : \A k \in Managers \ {n} : Private(n, k)'
    BY <1>0, <1>v, <2>1, <2>3, <2>9
  <2> QED BY <2>8, <2>9, <2>10
<1>3. ASSUME origin' = origin, \A n \in Managers : \A l \in active'[n] : l \in active[n]
      PROVE  \A n \in Managers : Supply(n)' /\ \A k \in Managers \ {n} : Private(n, k)'
  <2>1. \A n \in Managers : Supply(n)' /\ Made(n)' = Made(n)
    BY <1>3, <1>u
  <2> QED BY <1>0, <2>1
<1>4. ASSUME NEW m \in Managers, NEW lease \in leases, Release(m, lease)
      PROVE  \A n \in Managers : Supply(n)' /\ \A k \in Managers \ {n} : Private(n, k)'
  <2>1. origin' = origin /\ \A n \in Managers : \A l \in active'[n] : l \in active[n]
    BY <1>0, <1>4 DEF Release, TypeOK
  <2> QED BY <1>3, <2>1
<1>5. ASSUME UNCHANGED <<origin, active>>
      PROVE  \A n \in Managers : Supply(n)' /\ \A k \in Managers \ {n} : Private(n, k)'
  BY <1>3, <1>5
<1>6. CASE UNCHANGED vars
  BY <1>5, <1>6 DEF vars, manager
<1>7. ASSUME NEW m \in Managers,
             EnterPostLayout(m) \/ \E req \in Requests : Preview(m, req)
      PROVE  UNCHANGED <<origin, active>>
  BY <1>7 DEF EnterPostLayout, Preview, manager
<1>8. ASSUME (\E plan \in plans : DropPlan(plan)) \/ \E q \in OwnerQubits : AddQubit(q)
      PROVE  UNCHANGED <<origin, active>>
  BY <1>8 DEF DropPlan, AddQubit, manager
<1> QED BY <1>1, <1>2, <1>4, <1>5, <1>6, <1>7, <1>8 DEF Next

\* A manager's revision moves whenever its phase, origins or leased index do,
\* except when it is created, and no plan is previewed in the same step.
LEMMA RevisionGuardsAnswers ==
    ASSUME IInv, [Next]_vars, NEW n \in Managers
    PROVE  \/ /\ phase'[n] = phase[n] /\ origin'[n] = origin[n]
              /\ leased'[n] = leased[n] /\ revision'[n] = revision[n]
           \/ /\ plans' = plans
              /\ \/ phase[n] = "Absent" /\ revision'[n] = revision[n]
                 \/ phase[n] # "Absent" /\ revision'[n] = revision[n] + 1
<1> DEFINE Goal ==
        \/ /\ phase'[n] = phase[n] /\ origin'[n] = origin[n]
           /\ leased'[n] = leased[n] /\ revision'[n] = revision[n]
        \/ /\ plans' = plans
           /\ \/ phase[n] = "Absent" /\ revision'[n] = revision[n]
              \/ phase[n] # "Absent" /\ revision'[n] = revision[n] + 1
<1>0. TypeOK
  BY DEF IInv
<1>1. ASSUME NEW m \in Managers, FromCircuit(m) PROVE Goal
  BY <1>0, <1>1 DEF FromCircuit, TypeOK
<1>2. ASSUME NEW m \in Managers, NEW plan \in plans, Commit(m, plan) PROVE Goal
  BY <1>0, <1>2 DEF Commit, Advance, TypeOK
<1>3. ASSUME NEW m \in Managers, NEW lease \in leases, Release(m, lease) PROVE Goal
  BY <1>0, <1>3 DEF Release, Advance, TypeOK
<1>4. ASSUME NEW m \in Managers, EnterPostLayout(m) PROVE Goal
  BY <1>0, <1>4 DEF EnterPostLayout, Advance, TypeOK
<1>5. ASSUME UNCHANGED manager PROVE Goal
  BY <1>5 DEF manager
<1>6. ASSUME NEW m \in Managers, NEW req \in Requests, Preview(m, req) PROVE Goal
  BY <1>5, <1>6 DEF Preview
<1>7. ASSUME NEW plan \in plans, DropPlan(plan) PROVE Goal
  BY <1>5, <1>7 DEF DropPlan
<1>8. ASSUME NEW q \in OwnerQubits, AddQubit(q) PROVE Goal
  BY <1>5, <1>8 DEF AddQubit
<1>9. CASE UNCHANGED vars
  BY <1>5, <1>9 DEF vars
<1> QED BY <1>1, <1>2, <1>3, <1>4, <1>6, <1>7, <1>8, <1>9 DEF Next

\* A plan in the callers' hands after a step was there before it, or has just
\* been previewed by a manager that the step leaves alone.
LEMMA PlanSource ==
    ASSUME IInv, [Next]_vars, NEW plan \in plans'
    PROVE  \/ plan \in plans
           \/ /\ UNCHANGED manager
              /\ \E m \in Managers, req \in Requests :
                    /\ phase[m] # "Absent" /\ WellFormed(m, req) /\ Feasible(m, req)
                    /\ plan = PreviewPlan(m, req)
<1>1. ASSUME NEW m \in Managers, NEW req \in Requests, Preview(m, req)
      PROVE  \/ plan \in plans
             \/ /\ UNCHANGED manager
                /\ phase[m] # "Absent" /\ WellFormed(m, req)
                /\ Feasible(m, req) /\ plan = PreviewPlan(m, req)
  BY <1>1 DEF Preview
<1>2. ASSUME NEW m \in Managers,
             \/ FromCircuit(m) \/ EnterPostLayout(m)
             \/ \E p \in plans : Commit(m, p)
             \/ \E lease \in leases : Release(m, lease)
      PROVE  plan \in plans
  BY <1>2 DEF FromCircuit, EnterPostLayout, Commit, Release
<1>3. ASSUME (\E p \in plans : DropPlan(p)) \/ \E q \in OwnerQubits : AddQubit(q)
      PROVE  plan \in plans
  BY <1>3 DEF DropPlan, AddQubit
<1>4. CASE UNCHANGED vars
  BY <1>4 DEF vars
<1> QED BY <1>1, <1>2, <1>3, <1>4 DEF Next

\* A fresh plan stays the answer to its request, and a new plan is.
LEMMA AnswerStep ==
    IInv /\ [Next]_vars => FreshPlanIsCurrentAnswer' /\ PlansNotAhead' /\ PlanMeetsRequest'
<1> SUFFICES ASSUME IInv, [Next]_vars, NEW plan \in plans'
             PROVE  /\ plan.revision <= revision'[plan.manager]
                    /\ Fresh(plan)' => /\ WellFormed(plan.manager, plan.request)'
                                       /\ Feasible(plan.manager, plan.request)'
                                       /\ plan = PreviewPlan(plan.manager, plan.request)'
                    /\ Cardinality(plan.qubits) = plan.request.count
                    /\ plan.qubits \cap plan.request.excluded = {}
                    /\ plan.new \subseteq plan.qubits
                    /\ plan.requirement = "Dirty" => plan.new = {}
  BY DEF FreshPlanIsCurrentAnswer, PlansNotAhead, PlanMeetsRequest
<1> DEFINE n == plan.manager
<1>f. Fresh(plan)' <=> plan.revision = revision'[n]
  BY DEF Fresh
<1>0. TypeOK /\ CleanSupply
  BY DEF IInv
<1>1. CASE plan \in plans
  <2>1. /\ n \in Managers /\ plan.revision \in Nat /\ revision[n] \in Nat
        /\ plan.revision <= revision[n]
    BY <1>0, <1>1, BoundsAreNaturals DEF IInv, PlansNotAhead, TypeOK, Plans, Counter
  <2>2. /\ Cardinality(plan.qubits) = plan.request.count
        /\ plan.qubits \cap plan.request.excluded = {}
        /\ plan.new \subseteq plan.qubits
        /\ plan.requirement = "Dirty" => plan.new = {}
    BY <1>1 DEF IInv, PlanMeetsRequest
  <2>3. phase[n] # "Absent"
    BY <1>1, <2>1 DEF IInv, AbsentIsEmpty
  <2>4. CASE revision'[n] = revision[n] + 1
    <3> HIDE DEF n
    <3>1. plan.revision <= revision'[n] /\ plan.revision # revision'[n]
      BY <2>1, <2>4
    <3> QED BY <1>f, <2>2, <3>1 DEF n
  <2>5. CASE /\ phase'[n] = phase[n] /\ origin'[n] = origin[n]
             /\ leased'[n] = leased[n] /\ revision'[n] = revision[n]
    <3>1. plan.revision = revision[n] =>
            /\ WellFormed(n, plan.request) /\ Feasible(n, plan.request)
            /\ plan = PreviewPlan(n, plan.request)
      BY <1>1 DEF IInv, FreshPlanIsCurrentAnswer, Fresh
    <3> QED BY <1>f, <2>1, <2>2, <2>5, <3>1, AnswerStable
  <2> QED BY <2>1, <2>3, <2>4, <2>5, RevisionGuardsAnswers
<1>2. CASE plan \notin plans
  <2>1. PICK m \in Managers, req \in Requests :
            /\ phase[m] # "Absent" /\ WellFormed(m, req) /\ Feasible(m, req)
            /\ plan = PreviewPlan(m, req)
    BY <1>2, PlanSource
  <2>2. UNCHANGED manager
    BY <1>2, PlanSource
  <2>3. /\ n = m /\ plan.request = req /\ plan.revision = revision[m]
        /\ plan.requirement = req.requirement
    BY <2>1 DEF PreviewPlan
  <2>4. /\ Cardinality(plan.qubits) = req.count /\ plan.qubits \cap req.excluded = {}
        /\ plan.new \subseteq plan.qubits
        /\ plan.requirement = "Dirty" => plan.new = {}
    BY <1>0, <2>1, PreviewPlanFacts
  <2>5. /\ n \in Managers /\ WellFormed(n, plan.request) /\ Feasible(n, plan.request)
        /\ plan = PreviewPlan(n, plan.request)
    BY <2>1, <2>3
  <2>6. /\ WellFormed(n, plan.request)' /\ Feasible(n, plan.request)'
        /\ plan = PreviewPlan(n, plan.request)'
    BY <2>2, <2>5, AnswerStable DEF manager
  <2>7. revision'[n] = plan.revision /\ plan.revision \in Nat
    BY <1>0, <2>2, <2>3, BoundsAreNaturals DEF manager, TypeOK, Counter
  <2>8. plan.revision <= revision'[n]
    BY <2>7
  <2>9. Cardinality(plan.qubits) = plan.request.count /\ plan.qubits \cap plan.request.excluded = {}
    BY <2>3, <2>4
  <2> QED BY <2>4, <2>6, <2>8, <2>9
<1> QED BY <1>1, <1>2

\* Nothing happens to a manager before it is created.
LEMMA AbsentStep == IInv /\ [Next]_vars => AbsentIsEmpty'
<1> SUFFICES ASSUME IInv, [Next]_vars, NEW n \in Managers, phase'[n] = "Absent"
             PROVE  /\ WithOrigin(n, "CompilerAllocated")' = {}
                    /\ active'[n] = {} /\ leased'[n] = {}
                    /\ \A plan \in plans' : plan.manager # n
  BY DEF AbsentIsEmpty
<1> DEFINE Still == /\ phase[n] = "Absent" /\ origin'[n] = origin[n]
                    /\ active'[n] = active[n] /\ leased'[n] = leased[n]
<1>0. TypeOK
  BY DEF IInv
<1>1. ASSUME NEW m \in Managers,
             \/ FromCircuit(m) \/ EnterPostLayout(m)
             \/ \E p \in plans : Commit(m, p)
             \/ \E lease \in leases : Release(m, lease)
      PROVE  Still
  BY <1>0, <1>1 DEF FromCircuit, EnterPostLayout, Commit, Release, TypeOK
<1>2. ASSUME UNCHANGED manager PROVE Still
  BY <1>2 DEF manager
<1>3. Still
  BY <1>1, <1>2 DEF Next, Preview, DropPlan, AddQubit, vars
<1>4. ASSUME NEW plan \in plans' PROVE plan.manager # n
  <2>1. CASE plan \in plans
    BY <1>3, <2>1 DEF IInv, AbsentIsEmpty
  <2>2. CASE plan \notin plans
    <3>1. PICK m \in Managers, req \in Requests :
              phase[m] # "Absent" /\ plan = PreviewPlan(m, req)
      BY <2>2, PlanSource
    <3> QED BY <1>3, <3>1 DEF PreviewPlan
  <2> QED BY <2>1, <2>2
<1> QED BY <1>3, <1>4 DEF IInv, AbsentIsEmpty, WithOrigin

LEMMA InitEstablishes == Init => IInv
<1> SUFFICES ASSUME Init PROVE IInv
  OBVIOUS
<1> USE DEF Init
<1>1. TypeOK
  BY BoundsAreNaturals, InputsAreQubits DEF TypeOK, Counter
<1>2. \A m \in Managers : Registered(m) = {} /\ WithOrigin(m, "CompilerAllocated") = {}
  BY DEF Registered, WithOrigin
<1>3. LeasesExclusive
  BY <1>2 DEF LeasesExclusive, IdsNeverReused, LeasesPartitionIndex
<1>4. CleanSupply
  BY <1>2, FS_EmptySet, BoundsAreNaturals DEF CleanSupply
<1>5. FreshPlanIsCurrentAnswer /\ PlanMeetsRequest /\ PlansNotAhead /\ AbsentIsEmpty
  BY <1>2 DEF FreshPlanIsCurrentAnswer, PlanMeetsRequest, PlansNotAhead, AbsentIsEmpty
<1> QED BY <1>1, <1>3, <1>4, <1>5 DEF IInv

\* IInv is inductive: the base of every theorem below.
LEMMA StepPreserves == IInv /\ [Next]_vars => IInv'
BY TypeStep, ExclusiveStep, SupplyStep, AnswerStep, AbsentStep DEF IInv

THEOREM Inductive == Spec => []IInv
<1> QED BY InitEstablishes, StepPreserves, PTL DEF Spec

-----------------------------------------------------------------------------
(* Theorems *)

\* No operation takes an identifier, a revision or a lease id out of range.
THEOREM TypeCorrect == Spec => []TypeOK
<1>1. IInv => TypeOK
  BY DEF IInv
<1> QED BY Inductive, <1>1, PTL

\* Leases in force never share a qubit, for any number of managers and callers.
THEOREM Exclusive == Spec => []LeasesExclusive
<1>1. IInv => LeasesExclusive
  BY DEF IInv
<1> QED BY Inductive, <1>1, PTL

\* Clean leases are made of private ancillas within policy and capacity.
THEOREM SupplyIsClean == Spec => []CleanSupply
<1>1. IInv => CleanSupply
  BY DEF IInv
<1> QED BY Inductive, <1>1, PTL

\* A plan of the current revision is what preview would answer now.
THEOREM FreshIsCurrent == Spec => []FreshPlanIsCurrentAnswer
<1>1. IInv => FreshPlanIsCurrentAnswer
  BY DEF IInv
<1> QED BY Inductive, <1>1, PTL

\* A plan has the requested size and avoids the excluded qubits.
THEOREM MeetsRequest == Spec => []PlanMeetsRequest
<1>1. IInv => PlanMeetsRequest
  BY DEF IInv
<1> QED BY Inductive, <1>1, PTL

\* A plan of the current revision passes the checks of validate_plan.
LEMMA FreshIsValid ==
    ASSUME IInv, NEW plan \in plans, Fresh(plan) PROVE ValidPlan(plan.manager, plan)
<1> DEFINE m == plan.manager
<1>1. m \in Managers /\ plan.request \in Requests /\ TypeOK /\ CleanSupply
  BY DEF IInv, TypeOK, Plans
<1>2. phase[m] # "Absent" /\ leased[m] \subseteq Registered(m)
  BY <1>1 DEF IInv, AbsentIsEmpty, LeasesExclusive, LeasesPartitionIndex
<1>3. /\ WellFormed(m, plan.request) /\ Feasible(m, plan.request)
      /\ plan = PreviewPlan(m, plan.request)
  BY DEF IInv, FreshPlanIsCurrentAnswer
<1> HIDE DEF m
<1>4. ValidPlan(m, PreviewPlan(m, plan.request))
  BY <1>1, <1>2, <1>3, PreviewPlanFacts
<1> QED BY <1>3, <1>4 DEF m

\* validate_plan never rejects a plan of the current revision.
THEOREM FreshCommits == Spec => []FreshPlanCommits
<1>1. IInv => FreshPlanCommits
  BY FreshIsValid DEF FreshPlanCommits
<1> QED BY Inductive, <1>1, PTL

-----------------------------------------------------------------------------
(* Each manager implements the ancilla pool *)

\* The abstract state of a manager that a step leaves alone stays the same.
LEMMA PoolStutter ==
    ASSUME NEW n \in Managers, phase'[n] = phase[n], origin'[n] = origin[n],
           active'[n] = active[n],
           {k \in leases' : k.manager = n} = {k \in leases : k.manager = n}
    PROVE  (Pool(n)!vars)' = Pool(n)!vars
<1>1. \A o : WithOrigin(n, o)' = WithOrigin(n, o)
  BY DEF WithOrigin
<1>2. {k \in leases' \ active'[n] : k.manager = n} = {k \in leases \ active[n] : k.manager = n}
  OBVIOUS
<1>3. Stage(n)' = Stage(n)
  BY DEF Stage
<1> QED BY <1>1, <1>2, <1>3 DEF Pool!vars

LEMMA PoolInit == ASSUME Init, NEW n \in Managers PROVE Pool(n)!Init
<1>1. \A o \in Origins : WithOrigin(n, o) = {}
  BY DEF Init, WithOrigin, Origins
<1>2. Stage(n) = "Absent"
  BY DEF Init, Stage
<1>3. active[n] = {} /\ leases = {}
  BY DEF Init
<1> QED BY <1>1, <1>2, <1>3 DEF Pool!Init, Origins

\* Creation opens the pool over the qubits the circuit already has.
LEMMA PoolOpen ==
    ASSUME IInv, NEW n \in Managers, FromCircuit(n)
    PROVE  Pool(n)!Open
<1>1. TypeOK
  BY DEF IInv
<1>2. WithOrigin(n, "Input")' = circuit /\ circuit \in SUBSET Qubit
  BY <1>1 DEF FromCircuit, WithOrigin, TypeOK
<1>3. /\ WithOrigin(n, "CompilerAllocated") = {}
      /\ WithOrigin(n, "CompilerAllocated")' = {}
  BY <1>1 DEF IInv, AbsentIsEmpty, FromCircuit, WithOrigin, TypeOK
<1>4. Stage(n) = "Absent" /\ Stage(n)' = "Growing"
  BY <1>1 DEF FromCircuit, Stage, TypeOK
<1>5. active' = active /\ leases' = leases
  BY DEF FromCircuit
<1> QED BY <1>2, <1>3, <1>4, <1>5 DEF Pool!Open

\* A commit that passes its checks is a grant.
LEMMA PoolGrant ==
    ASSUME IInv, CleanSupply', NEW n \in Managers, NEW plan \in plans, Commit(n, plan)
    PROVE  \E g \in Pool(n)!Grants : Pool(n)!Grant(g)
<1> DEFINE lease == LeaseOf(plan, nextLeaseId[n])
           g == GrantOf(lease)
           Made == WithOrigin(n, "CompilerAllocated")
           Lent == WithOrigin(n, "Input")
<1>1. /\ TypeOK /\ IdsNeverReused(n) /\ LeasesPartitionIndex(n)
      /\ plan \in Plans /\ plan.new \subseteq plan.qubits
      /\ plan.requirement = "CleanZero" => plan.qubits \subseteq Made \cup plan.new
      /\ plan.new \cap circuit = {}
      /\ plan.qubits \subseteq Registered(n) \cup plan.new
      /\ plan.qubits \cap leased[n] = {}
      /\ plan.manager = n
      /\ plan.new # {} => phase[n] = "PreLayout"
      /\ nextLeaseId[n] \in Counter
  BY CommittedPlanFacts DEF Commit, CommitChecks, ValidPlan, IInv, LeasesExclusive, TypeOK
<1>2. /\ g.id = nextLeaseId[n] /\ g.qubits = plan.qubits
      /\ g.clean <=> plan.requirement = "CleanZero"
      /\ lease.id = nextLeaseId[n] /\ lease.qubits = plan.qubits /\ lease.manager = n
  BY <1>1 DEF GrantOf, LeaseOf
<1>3. g \in Pool(n)!Grants
  BY <1>1 DEF GrantOf, LeaseOf, Plans, Pool!Grants
<1>4. /\ leases' = leases \cup {lease}
      /\ active'[n] = {l \in active[n] : l.id # lease.id} \cup {lease}
      /\ phase' = phase
      /\ origin'[n] = [q \in Qubit |-> IF q \in plan.new THEN "CompilerAllocated"
                                        ELSE origin[n][q]]
  BY <1>1 DEF Commit, TypeOK
<1>5. /\ Made' = Made \cup plan.new /\ Lent' = Lent
      /\ plan.new \cap Registered(n) = {}
      /\ Registered(n) = Made \cup Lent
  <2>1. plan.new \cap Registered(n) = {}
    BY <1>1 DEF LeasesPartitionIndex
  <2>2. Registered(n) = Made \cup Lent
    BY <1>1 DEF Registered, WithOrigin, TypeOK, Origins
  <2> QED BY <1>1, <1>4, <2>1, <2>2 DEF WithOrigin, Registered, Plans
<1> HIDE DEF lease, g
<1>6. \A l \in leases : l.manager = n => l.id # g.id /\ l # lease
  <2>1. \A l \in leases : l.id \in Nat /\ nextLeaseId[n] \in Nat
    BY <1>1, BoundsAreNaturals DEF TypeOK, Leases, Counter
  <2> QED BY <1>1, <1>2, <2>1 DEF IdsNeverReused
<1>7. active'[n] = active[n] \cup {lease}
  BY <1>1, <1>2, <1>4, <1>6 DEF LeasesPartitionIndex
<1>8. {GrantOf(l) : l \in active'[n]} = {GrantOf(l) : l \in active[n]} \cup {g}
  BY <1>7 DEF g
<1>9. {k \in leases' \ active'[n] : k.manager = n} = {k \in leases \ active[n] : k.manager = n}
  BY <1>4, <1>6, <1>7
<1>10. g.id \notin {l.id : l \in {k \in leases \ active[n] : k.manager = n}}
                  \cup {h.id : h \in {GrantOf(l) : l \in active[n]}}
  <2>1. \A l \in active[n] : GrantOf(l).id = l.id /\ l \in leases /\ l.manager = n
    BY <1>1 DEF GrantOf, LeasesPartitionIndex
  <2> QED BY <1>6, <2>1
<1>11. \A h \in {GrantOf(l) : l \in active[n]} : h.qubits \cap g.qubits = {}
  <2>1. \A l \in active[n] : GrantOf(l).qubits = l.qubits /\ l.qubits \subseteq leased[n]
    BY <1>1 DEF GrantOf, LeasesPartitionIndex
  <2> QED BY <1>1, <1>2, <2>1
<1>12. Stage(n)' = Stage(n) /\ Stage(n) # "Absent"
  BY <1>4 DEF Stage, Commit
<1>13. Made' # Made => Stage(n) = "Growing"
  BY <1>1, <1>5 DEF Stage
<1>14. Made' \in {S \in SUBSET Qubit : Cardinality(S) <= MaxClean}
  BY DEF CleanSupply, WithOrigin
<1>15. g.qubits \subseteq IF g.clean THEN Made' ELSE Made' \cup Lent
  BY <1>1, <1>2, <1>5
<1>16. Made \subseteq Made' /\ Made' \ Made \subseteq g.qubits \ Lent
  BY <1>1, <1>2, <1>5
<1>17. {l.id : l \in {k \in leases' \ active'[n] : k.manager = n}}
         = {l.id : l \in {k \in leases \ active[n] : k.manager = n}}
  BY <1>9
<1>18. Pool(n)!Grant(g)
  BY <1>5, <1>8, <1>10, <1>11, <1>12, <1>13, <1>14, <1>15, <1>16, <1>17 DEF Pool!Grant
<1> QED BY <1>3, <1>18

\* A release that passes its checks returns the grant of that lease.
LEMMA PoolReturn ==
    ASSUME IInv, NEW n \in Managers, NEW lease \in leases, Release(n, lease)
    PROVE  \E g \in {GrantOf(l) : l \in active[n]} : Pool(n)!Return(g)
<1>1. /\ TypeOK /\ IdsNeverReused(n) /\ LeasesPartitionIndex(n)
      /\ lease \in active[n] /\ lease.manager = n
  BY DEF Release, ReleaseChecks, IInv, LeasesExclusive
<1>2. active'[n] = active[n] \ {lease}
  <2>1. active'[n] = {l \in active[n] : l.id # lease.id}
    BY <1>1 DEF Release, TypeOK
  <2>2. \A l \in active[n] : l.id = lease.id => l = lease
    BY <1>1 DEF IdsNeverReused, LeasesPartitionIndex
  <2> QED BY <1>1, <2>1, <2>2
<1>3. \A l \in active[n] : GrantOf(l) = GrantOf(lease) => l = lease
  <2>1. \A l \in active[n] : GrantOf(l) = GrantOf(lease) => l.id = lease.id
    BY DEF GrantOf
  <2> QED BY <1>1, <2>1 DEF IdsNeverReused, LeasesPartitionIndex
<1>4. {GrantOf(l) : l \in active'[n]} = {GrantOf(l) : l \in active[n]} \ {GrantOf(lease)}
  BY <1>1, <1>2, <1>3
<1>5. leases' = leases /\ phase' = phase /\ origin' = origin
  BY DEF Release
<1>6. {k \in leases' \ active'[n] : k.manager = n}
        = {k \in leases \ active[n] : k.manager = n} \cup {lease}
  BY <1>1, <1>2, <1>5
<1>7. {l.id : l \in {k \in leases' \ active'[n] : k.manager = n}}
        = {l.id : l \in {k \in leases \ active[n] : k.manager = n}} \cup {GrantOf(lease).id}
  <2>1. GrantOf(lease).id = lease.id
    BY DEF GrantOf
  <2> QED BY <1>6, <2>1
<1>8. Stage(n)' = Stage(n) /\ \A o : WithOrigin(n, o)' = WithOrigin(n, o)
  BY <1>5 DEF Stage, WithOrigin
<1>9. Pool(n)!Return(GrantOf(lease))
  BY <1>4, <1>7, <1>8 DEF Pool!Return
<1> QED BY <1>1, <1>9

\* Entering the post-layout phase freezes the pool.
LEMMA PoolFreeze ==
    ASSUME IInv, NEW n \in Managers, EnterPostLayout(n)
    PROVE  Pool(n)!Freeze
<1>1. /\ phase[n] = "PreLayout" /\ phase'[n] = "PostLayout" /\ active[n] = {}
      /\ active' = active /\ leases' = leases /\ origin' = origin
  BY DEF IInv, TypeOK, EnterPostLayout, Idle
<1>2. Stage(n) = "Growing" /\ Stage(n)' = "Frozen"
  BY <1>1 DEF Stage
<1>3. \A o : WithOrigin(n, o)' = WithOrigin(n, o)
  BY <1>1 DEF WithOrigin
<1> QED BY <1>1, <1>2, <1>3 DEF Pool!Freeze

\* Every step of the managers is a step or a stutter of each manager's pool.
LEMMA PoolStep ==
    ASSUME IInv, CleanSupply', [Next]_vars, NEW n \in Managers
    PROVE  [Pool(n)!Next]_(Pool(n)!vars)
<1> DEFINE Still == /\ phase'[n] = phase[n] /\ origin'[n] = origin[n]
                    /\ active'[n] = active[n]
                    /\ {k \in leases' : k.manager = n} = {k \in leases : k.manager = n}
<1>0. TypeOK
  BY DEF IInv
<1>1. ASSUME Still PROVE (Pool(n)!vars)' = Pool(n)!vars
  BY <1>1, PoolStutter
<1>2. ASSUME NEW m \in Managers, m # n,
             \/ FromCircuit(m) \/ EnterPostLayout(m)
             \/ \E lease \in leases : Release(m, lease)
      PROVE  Still
  BY <1>0, <1>2 DEF FromCircuit, EnterPostLayout, Release, TypeOK
<1>3. ASSUME NEW m \in Managers, m # n, NEW plan \in plans, Commit(m, plan)
      PROVE  Still
  <2>1. plan.manager = m
    BY <1>3 DEF Commit, CommitChecks
  <2>2. leases' = leases \cup {LeaseOf(plan, nextLeaseId[m])}
    BY <1>3 DEF Commit
  <2>3. {k \in leases' : k.manager = n} = {k \in leases : k.manager = n}
    BY <1>3, <2>1, <2>2 DEF LeaseOf
  <2> QED BY <1>0, <1>3, <2>3 DEF Commit, TypeOK
<1>4. ASSUME UNCHANGED <<phase, origin, active, leases>> PROVE Still
  BY <1>4
<1>5. ASSUME FromCircuit(n) PROVE Pool(n)!Next
  BY <1>5, PoolOpen DEF Pool!Next
<1>6. ASSUME NEW plan \in plans, Commit(n, plan) PROVE Pool(n)!Next
  BY <1>6, PoolGrant DEF Pool!Next
<1>7. ASSUME NEW lease \in leases, Release(n, lease) PROVE Pool(n)!Next
  BY <1>7, PoolReturn DEF Pool!Next
<1>8. ASSUME EnterPostLayout(n) PROVE Pool(n)!Next
  BY <1>8, PoolFreeze DEF Pool!Next
<1>9. Still \/ Pool(n)!Next
  <2>1. ASSUME NEW m \in Managers, NEW req \in Requests, Preview(m, req) PROVE Still
    BY <1>4, <2>1 DEF Preview, manager
  <2>2. ASSUME (\E plan \in plans : DropPlan(plan)) \/ \E q \in OwnerQubits : AddQubit(q)
        PROVE  Still
    BY <1>4, <2>2 DEF DropPlan, AddQubit, manager
  <2>3. CASE UNCHANGED vars
    BY <1>4, <2>3 DEF vars, manager
  <2> QED BY <1>2, <1>3, <1>5, <1>6, <1>7, <1>8, <2>1, <2>2, <2>3 DEF Next
<1> QED BY <1>1, <1>9

\* Whatever callers do with previews, stale plans and clones of leases, each
\* manager behaves as an ancilla pool: its grants never overlap, never share an
\* identity, and stop making qubits after layout.
THEOREM PoolImplemented == Spec => ImplementsPool
<1>1. Init => \A m \in Managers : Pool(m)!Init
  BY PoolInit
<1>2. IInv /\ IInv' /\ [Next]_vars
        => [\A m \in Managers : [Pool(m)!Next]_(Pool(m)!vars)]_vars
  BY PoolStep DEF IInv
<1> QED BY Inductive, <1>1, <1>2, PTL DEF Spec, ImplementsPool

-----------------------------------------------------------------------------
(* The pass *)

Trying == {"Preview", "Synthesize", "Commit", "Release"}
Running == Trying \cup {"Operation"}
Finished == MaxOperations - left    \* operations done

\* Where the pass is, and that it works on one of its gates with one manager.
PassShape ==
    /\ pc \in Running \cup {"Start", "Done", "Failed"}
    /\ left \in 0 .. MaxOperations
    /\ pc \in Trying => gate \in Gates /\ candidate \in Nat \ {0} /\ left > 0
    /\ \A l \in leases : l.manager = M

\* Nothing is done before the manager is created; then the circuit is the input
\* and what the manager allocated, and nothing is leased but while releasing.
PassOwns ==
    /\ pc = "Start" =>
         /\ circuit = InputQubits /\ phase[M] = "Absent"
         /\ plans = {} /\ leases = {} /\ left = MaxOperations
         /\ revision[M] = 0 /\ nextLeaseId[M] = 0
    /\ pc \in Running =>
         /\ phase[M] = "PreLayout"
         /\ circuit = Registered(M) /\ WithOrigin(M, "Input") = InputQubits
    /\ pc \in Running \ {"Release"} =>
         /\ active[M] = {}
         /\ revision[M] <= 2 * Finished /\ nextLeaseId[M] <= Finished

\* The one plan of the pass is the fresh answer to its candidate.
PassPlans ==
    /\ pc = "Preview" => plans = {}
    /\ pc \in {"Operation", "Release"} => \E plan : plans \subseteq {plan}
    /\ pc \in {"Synthesize", "Commit"} =>
         /\ candidate <= Len(Candidates(gate))
         /\ \E plan : /\ plans = {plan}
                      /\ plan.manager = M /\ plan.revision = revision[M]
                      /\ plan.request = Request(gate, candidate)

\* What is committed is synthesized, and is leased until it is emitted.
PassLeases ==
    /\ pc \in {"Commit", "Release"} =>
         [shape |-> Shape(gate), algorithm |-> candidate, uses |-> "All"] \in rules
    /\ pc = "Release" =>
         /\ revision[M] <= 2 * Finished + 1 /\ nextLeaseId[M] <= Finished + 1
         /\ \E lease \in leases : /\ active[M] = {lease}
                                  /\ lease.id = nextLeaseId[M] - 1
                                  /\ lease.qubits \cap gate.data = {}

PassInv == PassShape /\ PassOwns /\ PassPlans /\ PassLeases /\ NoIdleAncilla /\ AncillasApart

\* The pass asks for at least one ancilla, and for none of the gate's operands.
LEMMA CandidatesAsk ==
    ASSUME NEW g \in Gates
    PROVE  /\ Len(Candidates(g)) \in Nat
           /\ DOMAIN Candidates(g) = 1 .. Len(Candidates(g))
           /\ \A k \in 1 .. Len(Candidates(g)) :
                /\ Request(g, k) \in Requests /\ Request(g, k).count > 0
                /\ Request(g, k).excluded = g.data
<1> DEFINE Asks == [requirement : Requirements, count : Nat \ {0}]
           c == Controls(g)
<1>1. c \in Int
  <2>1. g.data \in SUBSET InputQubits
    BY DEF Gates
  <2>2. g.data \in SUBSET Qubit
    BY <2>1, InputsAreQubits
  <2> QED BY <2>2, QubitFinite DEF Controls
<1>2. Candidates(g) \in Seq(Asks)
  <2> HIDE DEF c
  <2>1. \A n \in Nat \ {0} : Clean(n) \in Asks /\ Dirty(n) \in Asks
    BY DEF Clean, Dirty, Requirements
  <2>2. c > 2 => << Clean(2), Clean(1), Clean(c - 2), Dirty(c - 2),
                    Dirty(2), Dirty(1), Clean(1) >> \in Seq(Asks)
    <3> HIDE DEF Asks
    <3> QED BY <1>1, <2>1
  <2>3. c > 1 => << Clean(c - 1) >> \in Seq(Asks)
    <3> HIDE DEF Asks
    <3> QED BY <1>1, <2>1
  <2>4. c > 0 => << Clean(c) >> \in Seq(Asks)
    <3> HIDE DEF Asks
    <3> QED BY <1>1, <2>1
  <2>5. << >> \in Seq(Asks)
    OBVIOUS
  <2> HIDE DEF Asks
  <2>6. CASE g.class = "Pauli" /\ c > 2
    BY <2>2, <2>6 DEF Candidates, c
  <2>7. CASE g.class \in {"OneTarget", "TwoTargets"} /\ c > 1
    BY <2>3, <2>7 DEF Candidates, c
  <2>8. CASE g.class = "FSim" /\ c > 0
    BY <2>4, <2>8 DEF Candidates, c
  <2>9. CASE ~ \/ g.class = "Pauli" /\ c > 2
               \/ g.class \in {"OneTarget", "TwoTargets"} /\ c > 1
               \/ g.class = "FSim" /\ c > 0
    BY <2>5, <2>9 DEF Candidates, c
  <2> QED BY <2>6, <2>7, <2>8, <2>9
<1>3. /\ Len(Candidates(g)) \in Nat
      /\ DOMAIN Candidates(g) = 1 .. Len(Candidates(g))
      /\ \A k \in 1 .. Len(Candidates(g)) : Candidates(g)[k] \in Asks
  <2> DEFINE s == Candidates(g)
  <2> HIDE DEF s, Asks
  <2>1. s \in Seq(Asks)
    BY <1>2 DEF s
  <2> QED BY <2>1 DEF s
<1>4. ASSUME NEW k \in 1 .. Len(Candidates(g))
      PROVE  /\ Request(g, k) \in Requests /\ Request(g, k).count > 0
             /\ Request(g, k).excluded = g.data
  <2>1. Request(g, k) \in Requests
    BY <1>3, RequestsCovered
  <2>2. Candidates(g)[k].count \in Nat \ {0}
    BY <1>3
  <2>3. Request(g, k).count = Candidates(g)[k].count /\ Request(g, k).excluded = g.data
    BY DEF Request
  <2> QED BY <2>1, <2>2, <2>3
<1> QED BY <1>3, <1>4

LEMMA ManagerIsOne == M \in Managers
BY ManagerExists DEF M

\* Whatever the pass does to its manager a caller may do.
LEMMA PassUsesManager ==
    ASSUME IInv, PassInv, [PassNext]_allVars
    PROVE  [Next]_vars
<1>0. M \in Managers
  BY ManagerIsOne
<1>1. ASSUME Start PROVE [Next]_vars
  BY <1>0, <1>1 DEF Start, Next
<1>2. ASSUME NextOperation PROVE [Next]_vars
  <2>1. PICK plan : plans \subseteq {plan}
    BY <1>2 DEF NextOperation, PassInv, PassPlans
  <2>2. plans = {} \/ plans = {plan}
    BY <2>1
  <2>3. CASE plans = {}
    BY <1>2, <2>3 DEF NextOperation, vars, manager
  <2>4. CASE plans = {plan}
    <3>1. plans' = plans \ {plan} /\ plan \in plans
      BY <1>2, <2>4 DEF NextOperation
    <3>2. DropPlan(plan)
      BY <1>2, <3>1 DEF NextOperation, DropPlan, manager
    <3> QED BY <3>1, <3>2 DEF Next
  <2> QED BY <2>2, <2>3, <2>4
<1>3. ASSUME PreviewCandidate PROVE [Next]_vars
  <2>1. gate \in Gates /\ candidate \in 1 .. Len(Candidates(gate))
    BY <1>3, CandidatesAsk DEF PreviewCandidate, PassInv, PassShape, Trying
  <2>2. Request(gate, candidate) \in Requests
    BY <2>1, CandidatesAsk
  <2>3. Preview(M, Request(gate, candidate))
    BY <1>3 DEF PreviewCandidate
  <2> QED BY <1>0, <2>2, <2>3 DEF Next
<1>4. ASSUME CandidateRejected PROVE [Next]_vars
  BY <1>4 DEF CandidateRejected, Next
<1>5. ASSUME CommitCandidate PROVE [Next]_vars
  BY <1>0, <1>5 DEF CommitCandidate, Next
<1>6. ASSUME ReleaseCandidate PROVE [Next]_vars
  BY <1>0, <1>6 DEF ReleaseCandidate, Next
<1>7. ASSUME UNCHANGED vars PROVE [Next]_vars
  BY <1>7
<1> QED BY <1>1, <1>2, <1>3, <1>4, <1>5, <1>6, <1>7
  DEF PassNext, Unavailable, Synthesized, SynthesisError, Fallback, Finish, Ended, allVars

\* The manager accepts every plan the pass commits and every lease it releases.
LEMMA PassCommits ==
    ASSUME IInv, PassInv, pc = "Commit", NEW plan \in plans
    PROVE  CommitChecks(M, plan)
<1>0. M \in Managers /\ pc \in Running \ {"Release"} /\ pc \in Trying
  BY ManagerIsOne DEF Running, Trying
<1>1. plan.manager = M /\ plan.revision = revision[M]
  BY DEF PassInv, PassPlans
<1>2. ValidPlan(M, plan)
  BY <1>1, FreshIsValid DEF Fresh
<1>3. circuit = Registered(M) /\ active[M] = {}
  BY <1>0 DEF PassInv, PassOwns
<1>4. leased[M] = {}
  BY <1>0, <1>3 DEF IInv, LeasesExclusive, LeasesPartitionIndex
<1>5. Consistent(M)
  BY <1>3, <1>4 DEF Consistent
<1>6. CanAdvance(M) /\ nextLeaseId[M] < MaxCounter
  <2>1. /\ left \in 0 .. MaxOperations /\ left > 0
        /\ revision[M] <= 2 * (MaxOperations - left) /\ nextLeaseId[M] <= MaxOperations - left
    BY <1>0 DEF PassInv, PassShape, PassOwns, Finished
  <2>2. revision[M] \in Nat /\ nextLeaseId[M] \in Nat
    BY <1>0, BoundsAreNaturals DEF IInv, TypeOK, Counter
  <2> QED BY <2>1, <2>2, BoundsAreNaturals, CountersSuffice DEF CanAdvance
<1>7. plan.new \cap circuit = {}
  BY <1>2, <1>3 DEF ValidPlan
<1> QED BY <1>1, <1>2, <1>5, <1>6, <1>7 DEF CommitChecks

LEMMA PassReleases ==
    ASSUME IInv, PassInv, pc = "Release", NEW lease \in leases, lease.id = nextLeaseId[M] - 1
    PROVE  /\ ReleaseChecks(M, lease)
           /\ active[M] = {lease} /\ leased[M] = lease.qubits
           /\ lease.qubits \cap gate.data = {}
<1>0. M \in Managers /\ pc \in Trying
  BY ManagerIsOne DEF Trying
<1>1. IdsNeverReused(M) /\ LeasesPartitionIndex(M)
  BY <1>0 DEF IInv, LeasesExclusive
<1>2. PICK k \in leases : /\ active[M] = {k} /\ k.id = nextLeaseId[M] - 1
                          /\ k.qubits \cap gate.data = {}
  BY DEF PassInv, PassLeases
<1>3. lease.manager = M /\ k.manager = M
  BY DEF PassInv, PassShape
<1>4. k = lease
  BY <1>1, <1>2, <1>3 DEF IdsNeverReused
<1>5. leased[M] = lease.qubits
  BY <1>1, <1>2, <1>4 DEF LeasesPartitionIndex
<1>6. CanAdvance(M)
  <2>1. left \in 0 .. MaxOperations /\ left > 0 /\ revision[M] <= 2 * (MaxOperations - left) + 1
    BY <1>0 DEF PassInv, PassShape, PassLeases, Finished
  <2>2. revision[M] \in Nat
    BY <1>0, BoundsAreNaturals DEF IInv, TypeOK, Counter
  <2> QED BY <2>1, <2>2, BoundsAreNaturals, CountersSuffice DEF CanAdvance
<1> QED BY <1>2, <1>3, <1>4, <1>5, <1>6 DEF ReleaseChecks

\* Steps that leave the manager and the emitted operations alone.
LEMMA PassStartStep == ASSUME IInv, IInv', PassInv, Start PROVE PassInv'
<1>0. M \in Managers
  BY ManagerIsOne
<1>1. /\ circuit = InputQubits /\ phase[M] = "Absent" /\ plans = {} /\ leases = {}
      /\ left = MaxOperations /\ revision[M] = 0 /\ nextLeaseId[M] = 0
      /\ pc = "Start"
  BY DEF Start, PassInv, PassOwns
<1>2. UNCHANGED <<left, gate, candidate, rules, emitted>>
  BY DEF Start
<1>3. CASE pc' = "Failed" /\ UNCHANGED vars
  BY <1>1, <1>2, <1>3
  DEF vars, manager, PassInv, PassShape, PassOwns, PassPlans, PassLeases, NoIdleAncilla,
      AncillasApart, Running, Trying
<1>4. CASE FromCircuit(M) /\ pc' = "Operation"
  <2>1. /\ phase'[M] = "PreLayout"
        /\ origin'[M] = [q \in Qubit |-> IF q \in circuit THEN "Input" ELSE "None"]
        /\ UNCHANGED <<circuit, leased, active, revision, nextLeaseId, plans, leases>>
    BY <1>0, <1>4 DEF FromCircuit, IInv, TypeOK
  <2>2. InputQubits \subseteq Qubit
    BY InputsAreQubits
  <2>3. Registered(M)' = InputQubits /\ WithOrigin(M, "Input")' = InputQubits
    BY <1>1, <2>1, <2>2 DEF Registered, WithOrigin
  <2>4. active[M] = {}
    BY <1>0, <1>1 DEF IInv, AbsentIsEmpty
  <2>5. PassShape' /\ PassPlans' /\ PassLeases'
    BY <1>1, <1>2, <1>4, <2>1 DEF PassInv, PassShape, PassPlans, PassLeases, Running, Trying
  <2>6. PassOwns'
    BY <1>1, <1>2, <1>4, <2>1, <2>3, <2>4, CountersSuffice DEF PassOwns, Running, Trying, Finished
  <2>7. NoIdleAncilla' /\ AncillasApart'
    BY <1>1, <1>2, <2>1 DEF PassInv, NoIdleAncilla, AncillasApart
  <2> QED BY <2>5, <2>6, <2>7 DEF PassInv
<1> QED BY <1>1, <1>3, <1>4 DEF Start

LEMMA PassQuietStep ==
    ASSUME IInv, PassInv, UNCHANGED <<vars, emitted>>,
           \/ Unavailable \/ Synthesized \/ SynthesisError
           \/ Finish \/ Ended
    PROVE  PassInv'
<1> USE DEF vars, manager, Running, Trying
<1>0. NoIdleAncilla' /\ AncillasApart'
  BY DEF PassInv, NoIdleAncilla, AncillasApart
<1>1. CASE Unavailable
  <2>1. gate \in Gates /\ candidate \in 1 .. Len(Candidates(gate))
    BY <1>1, CandidatesAsk DEF Unavailable, PassInv, PassShape
  <2>2. /\ Request(gate, candidate).count > 0
        /\ Request(gate, candidate).excluded \subseteq InputQubits
    BY <2>1, CandidatesAsk DEF Gates
  <2>3. InputQubits \subseteq Registered(M)
    BY <1>1 DEF Unavailable, PassInv, PassOwns, Registered, WithOrigin
  <2>4. pc' = "Preview" /\ candidate' = candidate + 1 /\ candidate' \in Nat \ {0}
    BY <1>1, <2>1, <2>2, <2>3 DEF Unavailable, WellFormed, PassInv, PassShape
  <2> QED BY <1>0, <1>1, <2>4
    DEF Unavailable, PassInv, PassShape, PassOwns, PassPlans, PassLeases, Registered, WithOrigin,
        Finished
<1>2. CASE Synthesized
  <2>1. [shape |-> Shape(gate), algorithm |-> candidate, uses |-> "All"] \in rules'
    BY <1>2 DEF Synthesized, Synthesis
  <2> QED BY <1>0, <1>2, <2>1
    DEF Synthesized, PassInv, PassShape, PassOwns, PassPlans, PassLeases, Registered, WithOrigin,
        Finished
<1>3. CASE SynthesisError
  BY <1>0, <1>3
  DEF SynthesisError, PassInv, PassShape, PassOwns, PassPlans, PassLeases
<1>4. CASE Finish
  <2>1. pc = "Operation" /\ M \in Managers
    BY <1>4, ManagerIsOne DEF Finish
  <2>2. circuit = Registered(M) /\ active[M] = {}
    BY <2>1 DEF PassInv, PassOwns
  <2>3. leased[M] = {}
    BY <2>1, <2>2 DEF IInv, LeasesExclusive, LeasesPartitionIndex
  <2>4. Idle(M)
    BY <2>2, <2>3 DEF Idle, Consistent
  <2>5. pc' = "Done"
    BY <1>4, <2>4 DEF Finish
  <2> QED BY <1>0, <1>4, <2>5
    DEF Finish, PassInv, PassShape, PassOwns, PassPlans, PassLeases
<1>5. CASE Ended
  BY <1>0, <1>5
  DEF Ended, allVars, passVars, PassInv, PassShape, PassOwns, PassPlans, PassLeases, Shape, Controls,
      Registered, WithOrigin, Finished, Candidates, Request
<1> QED BY <1>1, <1>2, <1>3, <1>4, <1>5

LEMMA PassNextOperation == ASSUME IInv, PassInv, NextOperation PROVE PassInv'
<1> USE DEF manager, Running, Trying
<1>1. NoIdleAncilla' /\ AncillasApart'
  BY DEF NextOperation, PassInv, NoIdleAncilla, AncillasApart
<1>2. PassShape' /\ PassPlans' /\ PassLeases'
  BY DEF NextOperation, PassInv, PassShape, PassPlans, PassLeases
<1>3. PassOwns'
  BY DEF NextOperation, PassInv, PassOwns, Registered, WithOrigin, Finished
<1> QED BY <1>1, <1>2, <1>3 DEF PassInv

LEMMA PassPreviewStep == ASSUME IInv, PassInv, PreviewCandidate PROVE PassInv'
<1> USE DEF manager, Running, Trying
<1>1. /\ pc = "Preview" /\ pc' = "Synthesize"
      /\ plans' = plans \cup {PreviewPlan(M, Request(gate, candidate))}
      /\ candidate <= Len(Candidates(gate))
      /\ UNCHANGED <<circuit, manager, leases, left, gate, candidate, rules, emitted>>
  BY DEF PreviewCandidate, Preview
<1>2. NoIdleAncilla' /\ AncillasApart'
  BY <1>1 DEF PassInv, NoIdleAncilla, AncillasApart
<1>3. PassShape' /\ PassLeases'
  BY <1>1 DEF PassInv, PassShape, PassLeases
<1>4. PassOwns'
  BY <1>1 DEF PassInv, PassOwns, Registered, WithOrigin, Finished
<1>5. PassPlans'
  <2> DEFINE plan == PreviewPlan(M, Request(gate, candidate))
  <2>1. plan.manager = M /\ plan.revision = revision[M] /\ plan.request = Request(gate, candidate)
    BY DEF PreviewPlan
  <2>2. plans' = {plan}
    BY <1>1 DEF PassInv, PassPlans
  <2>3. Candidates(gate)' = Candidates(gate) /\ Request(gate, candidate)' = Request(gate, candidate)
    BY <1>1 DEF Candidates, Request, Controls
  <2> HIDE DEF plan
  <2> QED BY <1>1, <2>1, <2>2, <2>3 DEF PassPlans
<1> QED BY <1>2, <1>3, <1>4, <1>5 DEF PassInv

LEMMA PassRejectStep == ASSUME IInv, PassInv, CandidateRejected PROVE PassInv'
<1> USE DEF manager, Running, Trying
<1>1. /\ pc = "Synthesize" /\ pc' = "Preview" /\ candidate' = candidate + 1
      /\ \E plan \in plans : plans' = plans \ {plan}
      /\ UNCHANGED <<circuit, manager, leases, left, gate, emitted>>
  BY DEF CandidateRejected, DropPlan
<1>2. NoIdleAncilla' /\ AncillasApart'
  BY <1>1 DEF PassInv, NoIdleAncilla, AncillasApart
<1>3. PassShape' /\ PassLeases'
  BY <1>1 DEF PassInv, PassShape, PassLeases
<1>4. PassOwns'
  BY <1>1 DEF PassInv, PassOwns, Registered, WithOrigin, Finished
<1>5. plans' = {}
  BY <1>1 DEF PassInv, PassPlans
<1>6. PassPlans'
  BY <1>1, <1>5 DEF PassPlans
<1> QED BY <1>2, <1>3, <1>4, <1>6 DEF PassInv

LEMMA PassCommitStep == ASSUME IInv, IInv', PassInv, CommitCandidate PROVE PassInv'
<1> USE DEF Running, Trying
<1>0. M \in Managers /\ TypeOK
  BY ManagerIsOne DEF IInv
<1>1. /\ pc = "Commit" /\ UNCHANGED <<left, gate, candidate, rules, emitted>>
      /\ phase[M] = "PreLayout" /\ circuit = Registered(M) /\ WithOrigin(M, "Input") = InputQubits
      /\ active[M] = {} /\ left > 0
      /\ revision[M] <= 2 * Finished /\ nextLeaseId[M] <= Finished
      /\ revision[M] \in Nat /\ nextLeaseId[M] \in Nat
  BY <1>0, BoundsAreNaturals DEF CommitCandidate, PassInv, PassOwns, PassShape, TypeOK, Counter
<1>2. PICK plan \in plans : Commit(M, plan) /\ pc' = "Release"
  BY <1>1, PassCommits DEF CommitCandidate
<1> DEFINE lease == LeaseOf(plan, nextLeaseId[M])
<1>3. /\ plans = {plan} /\ plan.manager = M /\ plan.request = Request(gate, candidate)
  BY <1>1 DEF PassInv, PassPlans
<1>4. /\ active'[M] = {lease} /\ leases' = leases \cup {lease}
      /\ circuit' = circuit \cup plan.new
      /\ origin'[M] = [q \in Qubit |-> IF q \in plan.new THEN "CompilerAllocated"
                                       ELSE origin[M][q]]
      /\ revision'[M] = revision[M] + 1 /\ nextLeaseId'[M] = nextLeaseId[M] + 1
      /\ UNCHANGED <<phase, plans>>
  BY <1>0, <1>1, <1>2 DEF Commit, Advance, TypeOK
<1>5. /\ lease.manager = M /\ lease.id = nextLeaseId[M] /\ lease.qubits = plan.qubits
  BY <1>3 DEF LeaseOf
<1>6. /\ plan.new \subseteq plan.qubits /\ plan.qubits \cap gate.data = {}
      /\ plan.new \subseteq Qubit /\ plan.new \cap circuit = {}
  BY <1>0, <1>2, <1>3 DEF IInv, PlanMeetsRequest, Request, TypeOK, Plans, Commit, CommitChecks
<1> HIDE DEF lease
<1>7. PassShape'
  BY <1>1, <1>2, <1>4, <1>5 DEF PassInv, PassShape
<1>8. PassOwns'
  <2>1. Registered(M)' = Registered(M) \cup plan.new
    BY <1>4, <1>6 DEF Registered
  <2>2. WithOrigin(M, "Input")' = WithOrigin(M, "Input")
    BY <1>1, <1>4, <1>6 DEF Registered, WithOrigin
  <2> QED BY <1>1, <1>2, <1>4, <2>1, <2>2 DEF PassOwns
<1>9. PassPlans'
  BY <1>2, <1>3, <1>4 DEF PassPlans
<1>10. PassLeases'
  <2>1. [shape |-> Shape(gate), algorithm |-> candidate, uses |-> "All"] \in rules
    BY <1>1 DEF PassInv, PassLeases
  <2>2. Shape(gate)' = Shape(gate) /\ Finished' = Finished /\ Finished \in Int
    BY <1>1, CountersSuffice DEF Shape, Controls, Finished, PassInv, PassShape
  <2>3. revision'[M] <= 2 * Finished' + 1 /\ nextLeaseId'[M] <= Finished' + 1
    BY <1>1, <1>4, <2>2
  <2>4. lease \in leases' /\ active'[M] = {lease} /\ lease.id = nextLeaseId'[M] - 1
        /\ lease.qubits \cap gate'.data = {}
    BY <1>1, <1>4, <1>5, <1>6
  <2> QED BY <1>1, <1>2, <2>1, <2>2, <2>3, <2>4 DEF PassLeases
<1>11. NoIdleAncilla'
  <2>1. circuit \ InputQubits \subseteq UNION {e.ancillas : e \in emitted}
    BY <1>1 DEF PassInv, NoIdleAncilla
  <2>2. UNION {l.qubits : l \in active'[M]} = plan.qubits
    BY <1>4, <1>5
  <2>3. circuit' \ InputQubits \subseteq (UNION {e.ancillas : e \in emitted}) \cup plan.qubits
    <3> DEFINE used == UNION {e.ancillas : e \in emitted}
    <3>1. circuit \ InputQubits \subseteq used
      BY <2>1
    <3> HIDE DEF used
    <3>2. circuit' = circuit \cup plan.new /\ plan.new \subseteq plan.qubits
      BY <1>4, <1>6
    <3>3. circuit' \ InputQubits \subseteq used \cup plan.qubits
      BY <3>1, <3>2
    <3> QED BY <3>3, Zenon DEF used
  <2> QED BY <1>1, <2>2, <2>3, Zenon DEF NoIdleAncilla
<1>12. AncillasApart'
  BY <1>1 DEF PassInv, AncillasApart
<1> QED BY <1>7, <1>8, <1>9, <1>10, <1>11, <1>12 DEF PassInv

\* What is released was used, by an operation whose operands it avoids.
LEMMA PassReleaseStep == ASSUME IInv, PassInv, ReleaseCandidate PROVE PassInv'
<1> USE DEF Running, Trying
<1>0. M \in Managers /\ TypeOK
  BY ManagerIsOne DEF IInv
<1>1. /\ pc = "Release" /\ UNCHANGED <<gate, candidate, rules>>
      /\ phase[M] = "PreLayout" /\ circuit = Registered(M) /\ WithOrigin(M, "Input") = InputQubits
      /\ left \in 0 .. MaxOperations /\ left > 0
      /\ revision[M] <= 2 * Finished + 1 /\ nextLeaseId[M] <= Finished + 1
      /\ revision[M] \in Nat /\ nextLeaseId[M] \in Nat
      /\ [shape |-> Shape(gate), algorithm |-> candidate, uses |-> "All"] \in rules
  BY <1>0, BoundsAreNaturals
  DEF ReleaseCandidate, PassInv, PassOwns, PassShape, PassLeases, TypeOK, Counter
<1>2. PICK lease \in leases :
         /\ lease.id = nextLeaseId[M] - 1
         /\ Release(M, lease) /\ Emit(UsedAncillas(lease), lease.requirement = "CleanZero")
         /\ pc' = "Operation"
  BY <1>1, PassReleases DEF ReleaseCandidate
<1>3. active[M] = {lease} /\ lease.qubits \cap gate.data = {}
  BY <1>1, <1>2, PassReleases
<1>4. /\ active'[M] = {} /\ revision'[M] = revision[M] + 1
      /\ UNCHANGED <<circuit, phase, origin, nextLeaseId, plans, leases>>
      /\ left' = left - 1
  BY <1>0, <1>2, <1>3 DEF Release, Advance, TypeOK, Emit
<1> DEFINE e == [data |-> gate.data, ancillas |-> lease.qubits,
                 clean |-> lease.requirement = "CleanZero"]
<1>5. emitted' = emitted \cup {e}
  BY <1>1, <1>2 DEF Emit, UsedAncillas
<1>6. /\ e.ancillas = lease.qubits /\ e.data = gate.data
      /\ e.clean => lease.requirement = "CleanZero"
  OBVIOUS
<1> HIDE DEF e
<1>7. PassShape'
  BY <1>1, <1>2, <1>4, CountersSuffice DEF PassInv, PassShape
<1>8. PassOwns'
  <2>1. Registered(M)' = Registered(M) /\ WithOrigin(M, "Input")' = WithOrigin(M, "Input")
    BY <1>4 DEF Registered, WithOrigin
  <2>2. revision'[M] <= 2 * Finished' /\ nextLeaseId'[M] <= Finished'
    BY <1>1, <1>4, CountersSuffice DEF Finished
  <2> QED BY <1>1, <1>2, <1>4, <2>1, <2>2 DEF PassOwns
<1>9. PassPlans' /\ PassLeases'
  BY <1>1, <1>2, <1>4 DEF PassInv, PassPlans, PassLeases
<1>10. NoIdleAncilla'
  <2>1. UNION {l.qubits : l \in active[M]} = e.ancillas
    BY <1>3, <1>6
  <2>2. (UNION {d.ancillas : d \in emitted}) \cup e.ancillas \subseteq UNION {d.ancillas : d \in emitted'}
    <3>1. \A d \in emitted \cup {e} : d \in emitted'
      BY <1>5
    <3>2. ASSUME NEW x \in (UNION {d.ancillas : d \in emitted}) \cup e.ancillas
          PROVE  \E d \in emitted' : x \in d.ancillas
      <4>1. CASE x \in e.ancillas
        BY <3>1, <4>1
      <4>2. CASE x \in UNION {d.ancillas : d \in emitted}
        BY <3>1, <4>2
      <4> QED BY <3>2, <4>1, <4>2
    <3> QED BY <3>2
  <2> QED BY <1>4, <2>1, <2>2 DEF PassInv, NoIdleAncilla
<1>11. AncillasApart'
  <2>1. e.clean => e.ancillas \cap InputQubits = {}
    <3>1. e.clean => lease.qubits \subseteq WithOrigin(M, "CompilerAllocated")
      BY <1>0, <1>3, <1>6 DEF IInv, CleanSupply
    <3>2. WithOrigin(M, "CompilerAllocated") \cap WithOrigin(M, "Input") = {}
      BY DEF WithOrigin
    <3> QED BY <1>1, <1>6, <3>1, <3>2
  <2> QED BY <1>3, <1>5, <1>6, <2>1 DEF PassInv, AncillasApart
<1> QED BY <1>7, <1>8, <1>9, <1>10, <1>11 DEF PassInv

LEMMA PassFallbackStep == ASSUME IInv, PassInv, Fallback PROVE PassInv'
<1> USE DEF vars, manager, Running, Trying
<1> DEFINE e == [data |-> gate.data, ancillas |-> {}, clean |-> TRUE]
<1>1. /\ pc = "Preview" /\ pc' = "Operation" /\ emitted' = emitted \cup {e}
      /\ left \in 0 .. MaxOperations /\ left > 0 /\ left' = left - 1
      /\ UNCHANGED <<vars, gate, candidate>>
  BY DEF Fallback, Emit, PassInv, PassShape
<1>2. e.ancillas = {}
  OBVIOUS
<1> HIDE DEF e
<1>3. M \in Managers /\ revision[M] \in Nat /\ nextLeaseId[M] \in Nat
  BY ManagerIsOne, BoundsAreNaturals DEF IInv, TypeOK, Counter
<1>4. PassShape' /\ PassPlans' /\ PassLeases'
  BY <1>1, CountersSuffice DEF PassInv, PassShape, PassPlans, PassLeases
<1>5. PassOwns'
  <2>1. Registered(M)' = Registered(M) /\ WithOrigin(M, "Input")' = WithOrigin(M, "Input")
    BY <1>1 DEF Registered, WithOrigin
  <2>2. revision'[M] <= 2 * Finished' /\ nextLeaseId'[M] <= Finished'
    BY <1>1, <1>3, CountersSuffice DEF Finished, PassInv, PassOwns
  <2> QED BY <1>1, <2>1, <2>2 DEF PassInv, PassOwns
<1>6. NoIdleAncilla' /\ AncillasApart'
  BY <1>1, <1>2 DEF PassInv, NoIdleAncilla, AncillasApart
<1> QED BY <1>4, <1>5, <1>6 DEF PassInv

LEMMA PassStep == IInv /\ PassInv /\ [PassNext]_allVars => IInv' /\ PassInv'
<1> SUFFICES ASSUME IInv, PassInv, [PassNext]_allVars PROVE IInv' /\ PassInv'
  OBVIOUS
<1>1. IInv'
  BY PassUsesManager, StepPreserves
<1>2. ASSUME UNCHANGED allVars PROVE PassInv'
  BY <1>2, PassQuietStep DEF allVars, passVars, Ended, PassInv, PassShape, PassOwns, PassPlans,
     PassLeases, NoIdleAncilla, AncillasApart, Registered, WithOrigin, Finished, Shape, Controls,
     Candidates, Request, vars, manager
<1>3. ASSUME Unavailable \/ Synthesized \/ SynthesisError \/ Finish \/ Ended PROVE PassInv'
  <2>1. UNCHANGED <<vars, emitted>>
    BY <1>3 DEF Unavailable, Synthesized, SynthesisError, Finish, Ended, allVars, passVars
  <2> QED BY <1>3, <2>1, PassQuietStep
<1> QED BY <1>1, <1>2, <1>3, PassStartStep, PassNextOperation, PassPreviewStep, PassRejectStep,
           PassCommitStep, PassReleaseStep, PassFallbackStep DEF PassNext

LEMMA PassStarts == PassInit => IInv /\ PassInv
<1> SUFFICES ASSUME PassInit PROVE IInv /\ PassInv
  OBVIOUS
<1>1. Init /\ M \in Managers
  BY ManagerIsOne DEF PassInit
<1>2. IInv
  BY <1>1, InitEstablishes
<1>3. PassShape /\ PassOwns
  BY <1>1, CountersSuffice DEF PassInit, Init, PassShape, PassOwns, Running, Trying
<1>4. PassPlans /\ PassLeases
  BY <1>1 DEF PassInit, Init, PassPlans, PassLeases
<1>5. NoIdleAncilla /\ AncillasApart
  BY <1>1 DEF PassInit, Init, NoIdleAncilla, AncillasApart
<1> QED BY <1>2, <1>3, <1>4, <1>5 DEF PassInv

THEOREM PassInductive == PassSpec => [](IInv /\ PassInv)
<1> QED BY PassStep, PassStarts, PTL DEF PassSpec

\* The pass uses its manager as a caller may, so that all said of managers holds
\* of the pass: every commit is of a fresh plan, every release of a lease in force.
THEOREM PassKeepsProtocol == PassSpec => Spec
<1>1. PassInit => Init
  BY DEF PassInit
<1> QED BY <1>1, PassInductive, PassUsesManager, PTL DEF PassSpec, Spec

\* The compiler never reports an invariant violation of its own bookkeeping:
\* what the pass previewed it can commit, what it committed it can release, and
\* it ends idle, for any circuit, device and policy
\* (try_cached_resource_candidate, run_with_rule_stats).
THEOREM BookkeepingSound == PassSpec => []BookkeepingNeverFails
<1>1. PassInv => BookkeepingNeverFails
  BY DEF PassInv, PassShape, Running, Trying, BookkeepingNeverFails
<1> QED BY <1>1, PassInductive, PTL

\* However often the pass previews and gives up, it widens the circuit only by
\* ancillas that an emitted decomposition, or the one about to be, uses.
THEOREM NothingIdle == PassSpec => []NoIdleAncilla
<1>1. PassInv => NoIdleAncilla
  BY DEF PassInv
<1> QED BY <1>1, PassInductive, PTL

\* No decomposition uses an operand as its ancilla, nor a qubit of the source
\* as a clean one.
THEOREM AncillasNeverOperands == PassSpec => []AncillasApart
<1>1. PassInv => AncillasApart
  BY DEF PassInv
<1> QED BY <1>1, PassInductive, PTL

=============================================================================
