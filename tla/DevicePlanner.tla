----------------------------- MODULE DevicePlanner -----------------------------
(***************************************************************************)
(* The planner of native implementations (compile/device_planning/         *)
(* planner.rs with the costs of cost.rs and the templates of templates.rs). *)
(* From the root states (a gate on exact ordered qubits) it expands the    *)
(* AND/OR graph of decompositions, which has cycles, and iterates Pareto   *)
(* frontiers of acyclic plans to a fixpoint.  The best plan of each state  *)
(* is selected; batches of roots are planned one after the other for one   *)
(* device, and the session wants them to agree.                            *)
(*                                                                         *)
(* Modelled without durations (duration_enabled = FALSE): work and         *)
(* makespan are built like error and total depth, with other weights.      *)
(* A stable key is the sequence of stable names in a plan's preorder; the  *)
(* names of templates are numbers in the order of their strings.           *)
(***************************************************************************)
EXTENDS Integers, SequencesExt, FiniteSetsExt

CONSTANTS
    States,        \* all DeviceGateStates [gate, qargs], in their order (Ord)
    Natives,       \* those that a device may support natively
    Rules,         \* RuleLibrary: [name, kind, gate, generic, target], where
                   \* target lists [gate, roles], roles being positions in qargs
    Reversible,    \* directed gates -> [name, dress]: reversed between dressings
    Symmetric,     \* gates invariant under exchange of operands -> stable name
    NativeName,    \* "native" among the stable names
    LeafErrors,    \* calibrated errors of native instructions
    RootBatches,   \* batches of roots that may be planned
    MaxFrontier,   \* max_frontier_size_per_state
    MaxNodes,      \* max_total_plan_nodes
    MaxGenerated,  \* max_total_generated_candidates
    MaxBatches     \* bound: batches planned in one behaviour

State == Range(States)
Qubits(s) == Range(s.qargs)

ASSUME LibraryAssumption ==
    /\ IsInjective(States) /\ Natives \subseteq State
    /\ \A R \in RootBatches : R \subseteq State
    /\ IsFiniteSet(Rules)
    /\ \A r, q \in Rules : r.name = q.name => r = q
    /\ NativeName \in Int /\ \A r \in Rules : r.name # NativeName
ASSUME StatesAssumption ==
    /\ States \in Seq(State)
    /\ \A s \in State : s.qargs \in Seq(Qubits(s)) /\ s.qargs # <<>>
ASSUME LimitAssumption ==
    /\ LeafErrors \subseteq Nat
    /\ {MaxFrontier, MaxNodes, MaxGenerated, MaxBatches} \subseteq Nat

VARIABLES
    native,      \* Device: supported native states -> their error
    batch,       \* how many batches were planned before
    exported,    \* the selected plans of the batches before
    phase,       \* where build_from_graph is
    cursor,      \* the index its loop has reached
    states,      \* GraphBuilder::states, in the order of discovery
    edges,       \* GraphBuilder::edges
    nodes,       \* the arena of plans
    frontiers,   \* state -> its plans (by index)
    explored,    \* edge -> the combinations of child plans already tried
    pending,     \* the combinations of the current edge still to try
    changed,     \* whether this round inserted a plan
    generated,   \* generated_candidates
    selected     \* state -> its best plan

graph == <<states, edges>>
plans == <<nodes, frontiers>>
search == <<explored, pending, changed, generated>>
plannerVars == <<native, batch, exported, phase, cursor, graph, plans, search, selected>>

-----------------------------------------------------------------------------
(* Order of keys, and costs *)

LexLess(a, b) ==
    \/ \E i \in DOMAIN a \cap DOMAIN b :
         a[i] < b[i] /\ \A j \in 1 .. i - 1 : a[j] = b[j]
    \/ Len(a) < Len(b) /\ \A i \in DOMAIN a : a[i] = b[i]

(* A max-plus profile: p[<<r, c>>] is the delay of output r behind input c. *)
(* Pairs outside its domain are not connected (NEG_INFINITY).              *)
Untouched(Q) == [x \in {<<q, q>> : q \in Q} |-> 0]

(* apply: one layer of the given weight over all of Q. *)
Layer(Q, weight) == [x \in Q \X Q |-> weight]

(* embedded: n leaves the other qubits alone. *)
Embedded(n, Q) ==
    LET others == {<<q, q>> : q \in Q \ {x[1] : x \in DOMAIN n}}
    IN  [x \in DOMAIN n \cup others |-> IF x \in others THEN 0 ELSE n[x]]

(* append: first p, then n. *)
Followed(p, n) ==
    LET Between(r, c) == {m \in {x[1] : x \in DOMAIN p} :
                            <<r, m>> \in DOMAIN n /\ <<m, c>> \in DOMAIN p}
        connected == {<<x[1], y[2]>> : x \in DOMAIN n, y \in DOMAIN p}
    IN  [x \in {z \in connected : Between(z[1], z[2]) # {}} |->
            Max({n[<<x[1], m>>] + p[<<m, x[2]>>] : m \in Between(x[1], x[2])})]

Within(p, q) == DOMAIN p \subseteq DOMAIN q /\ \A x \in DOMAIN p : p[x] <= q[x]

OutputMaximum(p) == Max(Range(p))

NoCost(Q) == [two |-> 0, ops |-> 0, error |-> 0,
              depth |-> Untouched(Q), twoDepth |-> Untouched(Q)]

LeafCost(s) ==
    LET two == IF Len(s.qargs) = 2 THEN 1 ELSE 0
    IN  [two |-> two, ops |-> 1, error |-> native[s],
         depth |-> Layer(Qubits(s), 1),
         twoDepth |-> IF two = 1 THEN Layer(Qubits(s), 1) ELSE Untouched(Qubits(s))]

(* combine and append_child, inside a parent on the qubits Q. *)
Combine(a, b, Q) ==
    [two |-> a.two + b.two, ops |-> a.ops + b.ops, error |-> a.error + b.error,
     depth |-> Followed(a.depth, Embedded(b.depth, Q)),
     twoDepth |-> Followed(a.twoDepth, Embedded(b.twoDepth, Q))]

(* dominates, or equal. *)
NoWorse(a, b) ==
    /\ a.two <= b.two /\ a.ops <= b.ops /\ a.error <= b.error
    /\ Within(a.depth, b.depth) /\ Within(a.twoDepth, b.twoDepth)

(* DevicePhysicalCost::compare, as a key. *)
Objective(c) == <<c.two, OutputMaximum(c.twoDepth), c.error, OutputMaximum(c.depth), c.ops>>

Tie(n) == <<n.steps>> \o n.key

(* Mutant: only the objective decides what is displaced. *)
DisplacesByObjective(new, old) == LexLess(Objective(new.cost), Objective(old.cost))

(* A frontier plan that keeps a candidate out, and the other way round. *)
Obstructs(old, new) ==
    /\ NoWorse(old.cost, new.cost)
    /\ old.cost = new.cost => ~ LexLess(Tie(new), Tie(old))
Displaces(new, old) ==
    /\ NoWorse(new.cost, old.cost)
    /\ old.cost = new.cost => LexLess(Tie(new), Tie(old))

-----------------------------------------------------------------------------
(* Decompositions of a state: rule_candidates and templates::candidates *)

Bound(s, target) ==
    LET Child(c) == [gate |-> c.gate, qargs |-> [i \in DOMAIN c.roles |-> s.qargs[c.roles[i]]]]
    IN  [i \in DOMAIN target |-> Child(target[i])]

RuleCandidates(s) ==
    {[name |-> r.name, children |-> Bound(s, SelectSeq(r.target, LAMBDA c : c.gate # "GPhase"))] :
        r \in {q \in Rules : /\ q.gate = s.gate
                             /\ q.kind \in {"Decompose", "HardwareNative"}
                             /\ q.generic}}

Templates(s) ==
    LET back == [gate |-> s.gate, qargs |-> Reverse(s.qargs)]
        dressing == [i \in 1 .. 2 |-> [gate |-> Reversible[s.gate].dress, qargs |-> <<s.qargs[i]>>]]
    IN  IF s.gate \in DOMAIN Reversible
        THEN {[name |-> Reversible[s.gate].name, children |-> dressing \o <<back>> \o dressing]}
        ELSE IF s.gate \in DOMAIN Symmetric
        THEN {[name |-> Symmetric[s.gate], children |-> <<back>>]}
        ELSE {}

Candidates(s) == RuleCandidates(s) \cup Templates(s)

(* Roles name operands of the gate, so children act on its qubits, and     *)
(* States has whatever a state decomposes into.                            *)
ASSUME CandidatesAssumption ==
    \A s \in State : \A d \in Candidates(s) :
        /\ d.name \in Int
        /\ d.children \in Seq({c \in State : Qubits(c) \subseteq Qubits(s)})

(* The elements of S in the order of their ranks. *)
InOrder(S, rank) ==
    CHOOSE d \in SetToSeqs(S) : \A i, j \in DOMAIN d : i < j => rank[d[i]] <= rank[d[j]]

Decompositions(s) == InOrder(Candidates(s), [d \in Candidates(s) |-> d.name])

(* intern, for a list of states. *)
Interned(known, new) ==
    LET after[i \in 0..Len(new)] ==
            IF i = 0 THEN known
            ELSE IF new[i] \in Range(after[i - 1]) THEN after[i - 1]
            ELSE Append(after[i - 1], new[i])
    IN  after[Len(new)]

-----------------------------------------------------------------------------
PlannerInit ==
    /\ native \in UNION {[S -> LeafErrors] : S \in SUBSET Natives}
    /\ batch = 0
    /\ exported = [s \in {} |-> <<>>]
    /\ phase = "Idle" /\ cursor = 1
    /\ states = <<>> /\ edges = <<>>
    /\ nodes = <<>> /\ frontiers = [s \in State |-> {}]
    /\ explored = <<>> /\ pending = {} /\ changed = FALSE /\ generated = 0
    /\ selected = [s \in {} |-> 0]

(* What two batches are compared by: the cost of the selected plan, or that *)
(* there is none.                                                          *)
Exported == [s \in Range(states) |->
                IF s \in DOMAIN selected THEN Objective(nodes[selected[s]].cost) ELSE <<>>]

(* build_with_estimator for another batch of roots. *)
Begin(R) ==
    /\ phase \in {"Idle", "Done"} /\ batch < MaxBatches
    /\ batch' = batch + 1
    /\ exported' = [s \in Range(states) \cup DOMAIN exported |->
                       IF s \in Range(states) THEN Exported[s] ELSE exported[s]]
    /\ phase' = "Expanding" /\ cursor' = 1
    /\ states' = InOrder(R, [s \in R |-> CHOOSE i \in DOMAIN States : States[i] = s])
    /\ edges' = <<>>
    /\ nodes' = <<>> /\ frontiers' = [s \in State |-> {}]
    /\ explored' = <<>> /\ pending' = {} /\ changed' = FALSE /\ generated' = 0
    /\ selected' = [s \in {} |-> 0]
    /\ UNCHANGED native

(* GraphBuilder::expand, one state. *)
Expand ==
    /\ phase = "Expanding"
    /\ IF cursor <= Len(states)
       THEN LET s == states[cursor]
                new == [i \in DOMAIN Decompositions(s) |->
                          [parent |-> s, name |-> Decompositions(s)[i].name,
                           children |-> Decompositions(s)[i].children]]
            IN  /\ edges' = edges \o new
                /\ states' = Interned(states, FlattenSeq([i \in DOMAIN new |-> new[i].children]))
                /\ cursor' = cursor + 1
                /\ UNCHANGED <<phase, explored>>
       ELSE /\ phase' = "Leaves" /\ cursor' = 1
            /\ explored' = [e \in DOMAIN edges |-> {}]
            /\ UNCHANGED graph
    /\ UNCHANGED <<native, batch, exported, plans, pending, changed, generated, selected>>

(* Mutant: the limits are checked before the new plan is counted. *)
InsertOverLimits(new) ==
    LET old == frontiers[new.state]
        retained == {p \in old : ~ Displaces(new, nodes[p])}
    IN  IF \E p \in old : Obstructs(nodes[p], new)
        THEN UNCHANGED <<phase, plans>>
        ELSE IF Cardinality(retained) > MaxFrontier \/ Len(nodes) > MaxNodes
        THEN phase' = "Failed" /\ UNCHANGED plans
        ELSE /\ UNCHANGED phase
             /\ nodes' = nodes \o <<new>>
             /\ frontiers' = [frontiers EXCEPT ![new.state] = retained \cup {Len(nodes) + 1}]

(* insert_candidate.  It answers by whether nodes changed. *)
Insert(new) ==
    LET old == frontiers[new.state]
        retained == {p \in old : ~ Displaces(new, nodes[p])}
    IN  IF \E p \in old : Obstructs(nodes[p], new)
        THEN UNCHANGED <<phase, plans>>
        ELSE IF Cardinality(retained) + 1 > MaxFrontier \/ Len(nodes) + 1 > MaxNodes
        THEN phase' = "Failed" /\ UNCHANGED plans
        ELSE /\ UNCHANGED phase
             /\ nodes' = nodes \o <<new>>
             /\ frontiers' = [frontiers EXCEPT ![new.state] = retained \cup {Len(nodes) + 1}]

(* The first loop of solve: a native plan for each supported state. *)
Leaf ==
    /\ phase = "Leaves"
    /\ IF cursor <= Len(states)
       THEN LET s == states[cursor]
            IN  /\ IF s \in DOMAIN native
                   THEN Insert([state |-> s, children |-> <<>>, cost |-> LeafCost(s), steps |-> 0,
                                key |-> <<NativeName>>, ancestry |-> {s}])
                   ELSE UNCHANGED <<phase, plans>>
                /\ cursor' = cursor + 1
       ELSE phase' = "Solving" /\ cursor' = 1 /\ UNCHANGED plans
    /\ UNCHANGED <<native, batch, exported, graph, search, selected>>

(* PlanCombinations of the frontiers of an edge's children. *)
Combinations(e) ==
    LET kids == edges[e].children
    IN  {c \in [DOMAIN kids -> UNION {frontiers[kids[i]] : i \in DOMAIN kids}] :
            \A i \in DOMAIN kids : c[i] \in frontiers[kids[i]]}

(* A plan of that name on the qubits Q, its children appended in turn. *)
Assembled(name, kids, Q) ==
    LET after[i \in 0..Len(kids)] ==
            IF i = 0 THEN [cost |-> NoCost(Q), steps |-> 1, key |-> <<name>>]
            ELSE [cost |-> Combine(after[i - 1].cost, kids[i].cost, Q),
                  steps |-> after[i - 1].steps + kids[i].steps,
                  key |-> after[i - 1].key \o kids[i].key]
    IN  after[Len(kids)]

(* A plan of edge e with these plans for its children. *)
Planned(e, c) ==
    LET parent == edges[e].parent
        kids == [i \in DOMAIN c |-> nodes[c[i]]]
        whole == Assembled(edges[e].name, kids, Qubits(parent))
    IN  [state |-> parent, children |-> c,
         cost |-> whole.cost, steps |-> whole.steps, key |-> whole.key,
         ancestry |-> (UNION {kids[i].ancestry : i \in DOMAIN kids}) \cup {parent}]

Cyclic(e, c) == \E i \in DOMAIN c : edges[e].parent \in nodes[c[i]].ancestry

(* Turn to the next edge and list the combinations not tried before. *)
NextEdge ==
    /\ phase = "Solving" /\ pending = {}
    /\ cursor <= Len(edges)
    /\ pending' = Combinations(cursor) \ explored[cursor]
    /\ explored' = [explored EXCEPT ![cursor] = @ \cup pending']
    /\ cursor' = IF pending' = {} THEN cursor + 1 ELSE cursor
    /\ UNCHANGED <<native, batch, exported, phase, graph, plans, changed, generated, selected>>

(* Frontiers are sorted by key, and combinations enumerated in that order. *)
Foremost(c) ==
    LET key == Planned(cursor, c).key
    IN  \A d \in pending \ {c} : LexLess(key, Planned(cursor, d).key)

(* Mutant: changed tells of the last combination only. *)
TryLastChange ==
    /\ phase = "Solving"
    /\ \E c \in pending :
        /\ Foremost(c)
        /\ pending' = pending \ {c}
        /\ cursor' = IF pending' = {} THEN cursor + 1 ELSE cursor
        /\ generated' = generated + 1
        /\ IF generated' > MaxGenerated
           THEN phase' = "Failed" /\ UNCHANGED plans
           ELSE IF Cyclic(cursor, c)
           THEN UNCHANGED <<phase, plans>>
           ELSE \E new \in {Planned(cursor, c)} : Insert(new)
        /\ changed' = (nodes' # nodes)
    /\ UNCHANGED <<native, batch, exported, graph, explored, selected>>

Try ==
    /\ phase = "Solving"
    /\ \E c \in pending :
        /\ Foremost(c)
        /\ pending' = pending \ {c}
        /\ cursor' = IF pending' = {} THEN cursor + 1 ELSE cursor
        /\ generated' = generated + 1
        /\ IF generated' > MaxGenerated
           THEN phase' = "Failed" /\ UNCHANGED plans
           ELSE IF Cyclic(cursor, c)
           THEN UNCHANGED <<phase, plans>>
           ELSE \E new \in {Planned(cursor, c)} : Insert(new)
        /\ changed' = (changed \/ nodes' # nodes)
    /\ UNCHANGED <<native, batch, exported, graph, explored, selected>>

(* Mutant: changed is not reset. *)
RepeatUnreset ==
    /\ phase = "Solving" /\ pending = {}
    /\ cursor > Len(edges) /\ changed
    /\ cursor' = 1
    /\ UNCHANGED <<native, batch, exported, phase, graph, plans, search, selected>>

(* The end of a round. *)
Repeat ==
    /\ phase = "Solving" /\ pending = {}
    /\ cursor > Len(edges) /\ changed
    /\ cursor' = 1 /\ changed' = FALSE
    /\ UNCHANGED <<native, batch, exported, phase, graph, plans, explored, pending, generated, selected>>

(* The comparison of min_by. *)
Rank(n) == Objective(n.cost) \o Tie(n)

Best(s) ==
    CHOOSE p \in frontiers[s] : \A q \in frontiers[s] : ~ LexLess(Rank(nodes[q]), Rank(nodes[p]))

(* The fixpoint is reached: the best plan of each state is selected.  *)
Select ==
    /\ phase = "Solving" /\ pending = {}
    /\ cursor > Len(edges) /\ ~ changed
    /\ selected' = [s \in {r \in Range(states) : frontiers[r] # {}} |-> Best(s)]
    /\ phase' = "Done"
    /\ UNCHANGED <<native, batch, exported, cursor, graph, plans, search>>

Solve == Expand \/ Leaf \/ NextEdge \/ Try \/ Repeat \/ Select

(* Nothing more is planned. *)
Finished ==
    /\ phase = "Failed" \/ (phase = "Done" /\ batch = MaxBatches)
    /\ UNCHANGED plannerVars

PlannerNext == Solve \/ Finished \/ \E R \in RootBatches : Begin(R)
PlannerSpec == PlannerInit /\ [][PlannerNext]_plannerVars

-----------------------------------------------------------------------------
Plan == 1 .. Len(nodes)

(* States, edges, plans and frontiers fit together: a plan's children were *)
(* built before it, its ancestry is exactly the states below it and never  *)
(* repeats its own state on a path, and the limits of insert_candidate are *)
(* kept.                                                                   *)
PlannerTypeOK ==
    /\ native \in [DOMAIN native -> LeafErrors] /\ DOMAIN native \subseteq Natives
    /\ phase \in {"Idle", "Expanding", "Leaves", "Solving", "Done", "Failed"}
    /\ IsInjective(states) /\ Range(states) \subseteq State
    /\ \A e \in DOMAIN edges :
          {edges[e].parent} \cup Range(edges[e].children) \subseteq Range(states)
    /\ Len(nodes) <= MaxNodes
    /\ \A p \in Plan :
          LET n == nodes[p]
              below == UNION {nodes[n.children[i]].ancestry : i \in DOMAIN n.children}
          IN  /\ Range(n.children) \subseteq 1 .. p - 1
              /\ n.state \notin below
              /\ n.ancestry = {n.state} \cup below
    /\ \A s \in State : /\ frontiers[s] \subseteq {p \in Plan : nodes[p].state = s}
                         /\ Cardinality(frontiers[s]) <= MaxFrontier
    /\ DOMAIN selected \subseteq Range(states)
    /\ \A s \in DOMAIN selected : selected[s] \in frontiers[s]

(* Pruning loses nothing.  When a batch is done, each native leaf and each *)
(* combination of the plans that are left is matched by a plan of its      *)
(* state's frontier that is no worse in any metric behind any prefix.  Even *)
(* the combinations that solve refused as cyclic are: no cheaper plan hides *)
(* behind a cycle, so the frontiers are a fixpoint of the whole graph.     *)
NothingLost ==
    phase = "Done" =>
        /\ \A s \in Range(states) \cap DOMAIN native :
              \E p \in frontiers[s] : NoWorse(nodes[p].cost, LeafCost(s))
        /\ \A e \in DOMAIN edges : \A c \in Combinations(e) :
              \E p \in frontiers[edges[e].parent] : NoWorse(nodes[p].cost, Planned(e, c).cost)

(* Batches planned separately for one device agree on which states have a  *)
(* native implementation and on the physical cost of the best one, whatever *)
(* the roots, the order in which states are discovered and plans pruned.   *)
(* (Which of several plans of equal cost is selected may differ: pruning   *)
(* decides ties by steps and key only among plans of equal profiles.)      *)
CostsAgree ==
    phase = "Done" =>
        \A s \in Range(states) \cap DOMAIN exported :
            /\ exported[s] = <<>> <=> Exported[s] = <<>>
            /\ exported[s] # <<>> => exported[s] = Exported[s]

(* solve ends, at its fixpoint or at a limit, although the decompositions  *)
(* form cycles: a round is repeated only when it built a plan, and a plan  *)
(* costs a node of the budget even if dominance drops it again.  While it  *)
(* searches, every step lowers this measure (and no step is missing: the   *)
(* run has no deadlock).                                                   *)
Remaining == <<MaxNodes - Len(nodes),
               IF changed THEN 1 ELSE 0,
               Len(edges) + 1 - cursor,
               IF pending = {} THEN 1 ELSE 0,
               Cardinality(pending)>>
SearchAdvances ==
    [][phase = "Solving" /\ phase' = "Solving" => LexLess(Remaining', Remaining)]_plannerVars

=============================================================================
