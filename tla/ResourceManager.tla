--------------------------- MODULE ResourceManager ---------------------------
(***************************************************************************)
(* The ancilla bookkeeping of the compiler (compile/resource/manager.rs):  *)
(* managers created from one circuit hand out leases on logical qubits.    *)
(*                                                                         *)
(* A caller asks for a side-effect-free preview, compares candidates, and  *)
(* commits one plan; the lease it receives is released later.  Plans and   *)
(* leases are Clone, so a caller may commit a plan after others have moved *)
(* the manager on, release a lease twice, or hand either to the wrong      *)
(* manager; every call that fails returns before it changes anything and   *)
(* is therefore a stuttering step here.                                    *)
(*                                                                         *)
(* Qubits are their u32 identifiers.  A plan's and a lease's qubits are    *)
(* sets: the code visits each key of a BTreeMap once, so its vectors hold  *)
(* no duplicates, and their order only decides which ancilla plays which   *)
(* part in the synthesized gates.                                          *)
(***************************************************************************)
EXTENDS Integers, FiniteSets

CONSTANTS
    Managers,      \* the managers that may be created (their ids are unique)
    InputQubits,   \* qubits of the circuit before any manager exists
    OwnerQubits,   \* qubits its owner may add to the circuit later
    MaxQubitId,    \* stands for u32::MAX, the last representable Qubit
    MaxCounter,    \* stands for u64::MAX, the last revision and lease id
    MaxClean,      \* ResourcePolicy::max_pre_layout_clean_ancillas
    AllowDirty,    \* ResourcePolicy::allow_dirty_borrowing
    TotalLimit,    \* ResourceLimits::max_total_qubits; above MaxQubitId: None
    Counts,        \* the ancilla counts callers ask for
    Exclusions,    \* the excluded sets callers pass
    MaxPlans       \* bound: previewed plans kept by the callers at one time

Qubit == 0 .. MaxQubitId

ASSUME ManagersFinite == IsFiniteSet(Managers)
ASSUME BoundsAreNaturals ==
    /\ MaxQubitId \in Nat
    /\ MaxCounter \in Nat
    /\ MaxClean \in Nat
    /\ TotalLimit \in Nat
    /\ MaxPlans \in Nat
ASSUME InputsAreQubits == InputQubits \cup OwnerQubits \subseteq Qubit
ASSUME RequestsAreTyped ==
    /\ AllowDirty \in BOOLEAN
    /\ Counts \subseteq Nat
    /\ Exclusions \subseteq SUBSET Qubit

VARIABLES
    circuit,      \* the qubits of the circuit the managers were created from
    phase,        \* manager -> "Absent" (not created), "PreLayout", "PostLayout"
    origin,       \* manager -> qubit -> "None" (no record), "Input", "CompilerAllocated"
    leased,       \* manager -> leased_qubits
    active,       \* manager -> active_leases, each with its key in field id
    revision,     \* manager -> revision
    nextLeaseId,  \* manager -> next_lease_id
    plans,        \* plans in the hands of callers
    leases        \* every lease ever returned: callers may keep clones

manager == <<phase, origin, leased, active, revision, nextLeaseId>>
vars == <<circuit, manager, plans, leases>>

Origins == {"Input", "CompilerAllocated"}
Requirements == {"CleanZero", "Dirty"}
Counter == 0 .. MaxCounter

Requests == [requirement : Requirements, count : Counts, excluded : Exclusions]

\* The request is not a field of ResourcePlan; it is kept here so that a
\* property can ask what the manager would answer to it now.
Plans == [manager : Managers, requirement : Requirements, qubits : SUBSET Qubit,
          new : SUBSET Qubit, revision : Counter, request : Requests]

Leases == [manager : Managers, id : Counter, requirement : Requirements,
           qubits : SUBSET Qubit]

-----------------------------------------------------------------------------
(* Queries on one manager *)

Registered(m) == {q \in Qubit : origin[m][q] # "None"}
WithOrigin(m, o) == {q \in Qubit : origin[m][q] = o}

\* The first n elements of a set of qubits in ascending order, or all of it.
Lowest(S, n) == {q \in S : Cardinality({r \in S : r < q}) < n}

\* select_origin: qubits of one origin, not leased and not excluded, in
\* ascending order until `count` are selected.
SelectOrigin(m, o, req, count) ==
    Lowest((WithOrigin(m, o) \ leased[m]) \ req.excluded, count)

\* The identifier after the last registered one, 0 when there is none.
FirstFreshId(m) ==
    IF Registered(m) = {} THEN 0
    ELSE 1 + CHOOSE q \in Registered(m) : \A r \in Registered(m) : r <= q

\* allocate_new_qubits; a block that reaches past MaxQubitId is QubitIdOverflow.
FreshQubits(m, n) == FirstFreshId(m) .. (FirstFreshId(m) + n - 1)

FitsTotal(m, additional) == Cardinality(Registered(m)) + additional <= TotalLimit

\* Every index of the manager agrees with the circuit and with the others.
Consistent(m) ==
    /\ circuit = Registered(m)
    /\ leased[m] \subseteq Registered(m)
    /\ \A l \in active[m] : l.qubits \subseteq Registered(m)
    /\ \A k, l \in active[m] : k.id # l.id => k.qubits \cap l.qubits = {}
    /\ UNION {l.qubits : l \in active[m]} = leased[m]

Idle(m) == Consistent(m) /\ active[m] = {}

WellFormed(m, req) == req.count > 0 /\ req.excluded \subseteq Registered(m)

\* Mutant: the filter on the origin is lost.
CleanReuseOfAnyOrigin(m, req) ==
    Lowest((Registered(m) \ leased[m]) \ req.excluded, req.count)

\* What preview selects, and what it must add, for a clean request.
CleanReuse(m, req) == SelectOrigin(m, "CompilerAllocated", req, req.count)
CleanShortage(m, req) == req.count - Cardinality(CleanReuse(m, req))
CleanFresh(m, req) == FreshQubits(m, CleanShortage(m, req))

\* Mutant: the identifiers of fresh qubits are not checked for overflow.
CleanFeasibleUnchecked(m, req) ==
    \/ CleanShortage(m, req) = 0
    \/ /\ phase[m] # "PostLayout"
       /\ CleanShortage(m, req) + Cardinality(WithOrigin(m, "CompilerAllocated")) <= MaxClean
       /\ FitsTotal(m, CleanShortage(m, req))

\* preview_clean finds a plan: enough free ancillas, or a pre-layout shortage
\* that policy, total capacity and the identifier space can cover.
CleanFeasible(m, req) ==
    \/ CleanShortage(m, req) = 0
    \/ /\ phase[m] # "PostLayout"
       /\ CleanShortage(m, req) + Cardinality(WithOrigin(m, "CompilerAllocated")) <= MaxClean
       /\ FitsTotal(m, CleanShortage(m, req))
       /\ CleanFresh(m, req) \subseteq Qubit

\* preview_dirty: compiler ancillas first, then input qubits if borrowing is
\* allowed; it never adds a qubit.
DirtySelection(m, req) ==
    LET own == SelectOrigin(m, "CompilerAllocated", req, req.count)
    IN  own \cup
        IF AllowDirty
        THEN SelectOrigin(m, "Input", req, req.count - Cardinality(own))
        ELSE {}

\* The requests preview answers with a plan ...
Feasible(m, req) ==
    IF req.requirement = "CleanZero" THEN CleanFeasible(m, req)
    ELSE Cardinality(DirtySelection(m, req)) = req.count

\* ... and that plan.
PreviewPlan(m, req) ==
    LET fresh == IF req.requirement = "CleanZero" THEN CleanFresh(m, req) ELSE {}
        reuse == IF req.requirement = "CleanZero" THEN CleanReuse(m, req)
                 ELSE DirtySelection(m, req)
    IN  [manager |-> m, requirement |-> req.requirement, qubits |-> reuse \cup fresh,
         new |-> fresh, revision |-> revision[m], request |-> req]

\* validate_plan
ValidPlan(m, plan) ==
    /\ plan.new # {} => phase[m] = "PreLayout"
    /\ plan.new \cap Registered(m) = {}
    /\ plan.qubits \cap leased[m] = {}
    /\ plan.qubits \subseteq Registered(m) \cup plan.new
    /\ FitsTotal(m, Cardinality(plan.new))

LeaseOf(plan, id) == [manager |-> plan.manager, id |-> id,
                      requirement |-> plan.requirement, qubits |-> plan.qubits]

\* next_revision: checked_add
CanAdvance(m) == revision[m] < MaxCounter
Advance(m) == revision' = [revision EXCEPT ![m] = @ + 1]

-----------------------------------------------------------------------------
(* Operations *)

Init ==
    /\ circuit = InputQubits
    /\ phase = [m \in Managers |-> "Absent"]
    /\ origin = [m \in Managers |-> [q \in Qubit |-> "None"]]
    /\ leased = [m \in Managers |-> {}]
    /\ active = [m \in Managers |-> {}]
    /\ revision = [m \in Managers |-> 0]
    /\ nextLeaseId = [m \in Managers |-> 0]
    /\ plans = {}
    /\ leases = {}

\* A manager is created once: its id comes from an atomic counter and the
\* struct is not Clone.
FromCircuit(m) ==
    /\ phase[m] = "Absent"
    /\ Cardinality(circuit) <= TotalLimit
    /\ phase' = [phase EXCEPT ![m] = "PreLayout"]
    /\ origin' = [origin EXCEPT ![m] =
                    [q \in Qubit |-> IF q \in circuit THEN "Input" ELSE "None"]]
    /\ UNCHANGED <<circuit, leased, active, revision, nextLeaseId, plans, leases>>

Preview(m, req) ==
    /\ phase[m] # "Absent"
    /\ WellFormed(m, req)
    /\ Feasible(m, req)
    /\ Cardinality(plans) < MaxPlans
    /\ plans' = plans \cup {PreviewPlan(m, req)}
    /\ UNCHANGED <<circuit, manager, leases>>

\* The caller drops a plan it did not choose.
DropPlan(plan) ==
    /\ plans' = plans \ {plan}
    /\ UNCHANGED <<circuit, manager, leases>>

\* Consumes one clone of the plan; others may remain with the caller.  The
\* checks of a plan of another manager, of a stale plan, of the indexes, of the
\* plan and of the counters all come before the first change.
CommitChecks(m, plan) ==
    /\ plan.manager = m
    /\ plan.revision = revision[m]
    /\ Consistent(m)
    /\ ValidPlan(m, plan)
    /\ CanAdvance(m)
    /\ nextLeaseId[m] < MaxCounter
    /\ plan.new \cap circuit = {}     \* Circuit::add_qubits

\* Mutant: next_lease_id is not advanced.
CommitReusingId(m, plan) ==
    /\ phase[m] # "Absent"
    /\ CommitChecks(m, plan)
    /\ LET lease == LeaseOf(plan, nextLeaseId[m])
       IN  /\ active' = [active EXCEPT ![m] = {l \in @ : l.id # lease.id} \cup {lease}]
           /\ leases' = leases \cup {lease}
    /\ circuit' = circuit \cup plan.new
    /\ origin' = [origin EXCEPT ![m] =
                    [q \in Qubit |-> IF q \in plan.new THEN "CompilerAllocated" ELSE @[q]]]
    /\ leased' = [leased EXCEPT ![m] = @ \cup plan.qubits]
    /\ Advance(m)
    /\ UNCHANGED <<phase, nextLeaseId, plans>>

Commit(m, plan) ==
    /\ phase[m] # "Absent"
    /\ CommitChecks(m, plan)
    /\ LET lease == LeaseOf(plan, nextLeaseId[m])
       IN  /\ active' = [active EXCEPT ![m] = {l \in @ : l.id # lease.id} \cup {lease}]
           /\ leases' = leases \cup {lease}
    /\ circuit' = circuit \cup plan.new
    /\ origin' = [origin EXCEPT ![m] =
                    [q \in Qubit |-> IF q \in plan.new THEN "CompilerAllocated" ELSE @[q]]]
    /\ leased' = [leased EXCEPT ![m] = @ \cup plan.qubits]
    /\ Advance(m)
    /\ nextLeaseId' = [nextLeaseId EXCEPT ![m] = @ + 1]
    /\ UNCHANGED <<phase, plans>>

\* Mutant: the active record under the lease's id is not looked up.
ReleaseChecksNoRecord(m, lease) ==
    /\ lease.manager = m
    /\ lease.qubits \subseteq leased[m]
    /\ CanAdvance(m)

\* The lease must be equal to the active record under its id, and its manager's.
ReleaseChecks(m, lease) ==
    /\ lease.manager = m
    /\ lease \in active[m]
    /\ lease.qubits \subseteq leased[m]
    /\ CanAdvance(m)

\* Mutant: the revision is not advanced.
ReleaseSameRevision(m, lease) ==
    /\ phase[m] # "Absent"
    /\ ReleaseChecks(m, lease)
    /\ active' = [active EXCEPT ![m] = {l \in @ : l.id # lease.id}]
    /\ leased' = [leased EXCEPT ![m] = @ \ lease.qubits]
    /\ UNCHANGED <<circuit, phase, origin, revision, nextLeaseId, plans, leases>>

Release(m, lease) ==
    /\ phase[m] # "Absent"
    /\ ReleaseChecks(m, lease)
    /\ active' = [active EXCEPT ![m] = {l \in @ : l.id # lease.id}]
    /\ leased' = [leased EXCEPT ![m] = @ \ lease.qubits]
    /\ Advance(m)
    /\ UNCHANGED <<circuit, phase, origin, nextLeaseId, plans, leases>>

EnterPostLayout(m) ==
    /\ phase[m] = "PreLayout"
    /\ Idle(m)
    /\ CanAdvance(m)
    /\ phase' = [phase EXCEPT ![m] = "PostLayout"]
    /\ Advance(m)
    /\ UNCHANGED <<circuit, origin, leased, active, nextLeaseId, plans, leases>>

\* The owner of the circuit adds a qubit without telling any manager.
AddQubit(q) ==
    /\ q \notin circuit
    /\ circuit' = circuit \cup {q}
    /\ UNCHANGED <<manager, plans, leases>>

Next ==
    \/ \E m \in Managers :
          \/ FromCircuit(m)
          \/ \E req \in Requests : Preview(m, req)
          \/ \E plan \in plans : Commit(m, plan)
          \/ \E lease \in leases : Release(m, lease)
          \/ EnterPostLayout(m)
    \/ \E plan \in plans : DropPlan(plan)
    \/ \E q \in OwnerQubits : AddQubit(q)

Spec == Init /\ [][Next]_vars

-----------------------------------------------------------------------------
(* Properties *)

\* Every variable has its type: no identifier, revision or lease id leaves the
\* representable range although previews add to all three.
TypeOK ==
    /\ circuit \in SUBSET Qubit
    /\ phase \in [Managers -> {"Absent", "PreLayout", "PostLayout"}]
    /\ origin \in [Managers -> [Qubit -> Origins \cup {"None"}]]
    /\ leased \in [Managers -> SUBSET Qubit]
    /\ active \in [Managers -> SUBSET Leases]
    /\ revision \in [Managers -> Counter]
    /\ nextLeaseId \in [Managers -> Counter]
    /\ plans \in SUBSET Plans
    /\ leases \in SUBSET Leases

\* Two credentials of one manager never share an id, even long after the
\* first was released.
IdsNeverReused(m) ==
    /\ \A l \in leases : l.manager = m => l.id < nextLeaseId[m]
    /\ \A k, l \in leases : k.manager = m /\ l.manager = m /\ k.id = l.id => k = l

\* The leases in force are credentials of the manager, hold disjoint qubits
\* it knows, and are together exactly the leased index that previews read.
LeasesPartitionIndex(m) ==
    /\ \A l \in active[m] : l \in leases /\ l.manager = m
    /\ \A k, l \in active[m] : k # l => k.qubits \cap l.qubits = {}
    /\ leased[m] = UNION {l.qubits : l \in active[m]}
    /\ leased[m] \subseteq Registered(m)
    /\ Registered(m) \subseteq circuit

\* A qubit is in at most one lease in force of a manager, whatever stale plans
\* are committed and however often clones of a lease are released
\* (commit, release, validate_plan).
LeasesExclusive ==
    \A m \in Managers : IdsNeverReused(m) /\ LeasesPartitionIndex(m)

\* Clean leases are made of qubits this manager itself added, no two managers
\* of one circuit think they added the same qubit, and what a manager adds
\* stays within the ancilla policy and the device capacity although both are
\* tested when the plan is made and not when the policy is spent.
CleanSupply ==
    \A m \in Managers :
        /\ \A l \in active[m] : l.requirement = "CleanZero" =>
                l.qubits \subseteq WithOrigin(m, "CompilerAllocated")
        /\ Cardinality(WithOrigin(m, "CompilerAllocated")) <= MaxClean
        /\ Cardinality(Registered(m)) <= TotalLimit
        /\ \A n \in Managers \ {m} :
                WithOrigin(m, "CompilerAllocated") \cap WithOrigin(n, "CompilerAllocated") = {}

Fresh(plan) == plan.revision = revision[plan.manager]

\* The revision is exactly the age of the answer: as long as a plan carries the
\* current revision, previewing its request again would return the same plan,
\* so that a caller never commits a choice that is no longer the best one.
FreshPlanIsCurrentAnswer ==
    \A plan \in plans : Fresh(plan) =>
        /\ WellFormed(plan.manager, plan.request)
        /\ Feasible(plan.manager, plan.request)
        /\ plan = PreviewPlan(plan.manager, plan.request)

\* The checks of validate_plan never reject a plan that is not stale: a caller
\* that commits what it just previewed can only fail because the circuit was
\* changed behind the manager or a counter is exhausted.
FreshPlanCommits ==
    \A plan \in plans : Fresh(plan) => ValidPlan(plan.manager, plan)

\* A plan holds exactly as many distinct qubits as were asked for and none of
\* those the caller excluded; a dirty plan never widens the circuit.
PlanMeetsRequest ==
    \A plan \in plans :
        /\ Cardinality(plan.qubits) = plan.request.count
        /\ plan.qubits \cap plan.request.excluded = {}
        /\ plan.new \subseteq plan.qubits
        /\ plan.requirement = "Dirty" => plan.new = {}

GrantOf(l) == [id |-> l.id, clean |-> l.requirement = "CleanZero", qubits |-> l.qubits]

Stage(m) == IF phase[m] = "Absent" THEN "Absent"
            ELSE IF phase[m] = "PreLayout" THEN "Growing" ELSE "Frozen"

Pool(m) == INSTANCE AncillaPool WITH
    GrantId <- Counter,
    Affordable <- {S \in SUBSET Qubit : Cardinality(S) <= MaxClean},
    stage <- Stage(m),
    borrowed <- WithOrigin(m, "Input"),
    made <- WithOrigin(m, "CompilerAllocated"),
    grants <- {GrantOf(l) : l \in active[m]},
    returned <- {l.id : l \in {k \in leases \ active[m] : k.manager = m}}

\* Each manager, with its previews, plans, clones and failing calls, behaves
\* as the ancilla pool its documentation describes.
ImplementsPool ==
    /\ \A m \in Managers : Pool(m)!Init
    /\ [][\A m \in Managers : [Pool(m)!Next]_(Pool(m)!vars)]_vars

=============================================================================
