# TLA+ models of cqlib

cqlib is a quantum-circuit compiler and simulator library written in Rust
(`src/crates/cqlib-core`) with Python and C bindings. Most of it is pure
computation: gates, matrices, parsers, renderers. What can go wrong without a
unit test noticing sits in the compiler (`cqlib-core/src/compile`): bookkeeping
that hands out scratch qubits, caches shared by threads, planners and routers
that iterate until nothing changes, and a workflow that skips work it believes
already done. Most modules in this directory model that part; two model the
Clifford simulators (`cqlib-core/src/qis/state`), whose state evolves over any
sequence of gates and measurements and can go wrong long before it shows.

## 1. Inventory

Paths are relative to `src/crates/cqlib-core/src`.

| part | state | operations | what makes it hard | what must hold |
|---|---|---|---|---|
| Ancilla resource manager, `compile/resource/` | registered qubits and origins, leased index, active leases, revision, next lease id, phase | `from_circuit`, `preview`, `commit`, `release`, `enter_post_layout`, `verify_*` | previews age; plans and leases are `Clone`; the circuit belongs to somebody else; every error must leave no trace | exclusive leases, clean ancillas are clean, a current plan is the current answer |
| Multi-controlled gate decomposer, `compile/transform/decompose/mc_gate/` | one manager, rule cache, rebuilt operations | candidates tried in order: preview, synthesize, commit, release | rejected candidates, rules cached for other qubits | bookkeeping never fails, no unused ancilla |
| Planning session, `compile/device_planning/session.rs` | LRU batches, byte counter, flights, condition variable | `prepare` by many threads | overlapping requests, eviction during planning, failing planner, lost wakeups | one planning per root at a time, coherent answers, progress |
| Planning registry, `compile/device_planning/registry.rs` | process-wide LRU of device knowledge, a cache of SWAP plans per device | `shared_knowledge`, `prepare_common`, refresh, eviction | two locks and an atomic, entries evicted and recreated while still in use | limits, one entry per namespace, the protected entry survives |
| Device planner, `compile/device_planning/planner.rs` | AND/OR graph of gate states, Pareto fronts | expand, solve to a fixpoint | cycles, dominance, direction | optimal and well-founded plans, termination |
| SABRE, `compile/sabre/` | front layer, layout, decay; a pair-cost cache shared by parallel trials | layout trials, routing, release valve | single-flight computation with abort; progress of routing | layouts stay bijections, every gate is routed |
| Workflow, `compile/workflow.rs` | current circuit and revision, proofs, prepared target | stages, candidate beam, fallbacks | a proof outliving the circuit it is about; recoverable errors | no stage is skipped on a stale proof |
| Rewrite session, `compile/transform/rewrite/` | workspace, proofs of fixpoints | execute, reconcile | an error between taking and returning the workspace | reuse only for the same revision |
| Virtual permutation, `compile/transform/virtual_permutation.rs` | permutation of wires | elide, compose with layouts | direction of composition | same unitary up to the reported layout |
| Parallel trials, `compile/parallelism.rs` | none | chunking | boundaries | every trial exactly once |
| Circuit, DAG, classical control, `circuit/` | qubits, operations, parameter table | edits, traversal | index maintenance | acyclic, consistent wires |
| Clifford simulation, `qis/state/stabilizer.rs`, `statevector.rs`, `qis/observable.rs` | tableau of signed Pauli strings; amplitudes | gates, measure, reset; probabilities, Pauli expectations | a corrupt tableau still answers; signs cancel in most tests | the tableau stays symplectic, both simulators answer alike |
| Devices, gates, other simulators, error mitigation, QASM/QCIS, visualization, bindings | values | conversions, arithmetic | numeric | see "Not modelled" |

Interactions: the workflow runs the transforms in a fixed order on one circuit.
The decomposer owns a resource manager for one pass. Routing, lowering and
native optimization share one planning session per compiled device; each
session holds an `Arc` of the knowledge kept by the process-wide registry.
SABRE trials run on worker threads and share the lazy pair-cost cache of their
routing target. The simulators share nothing but the gate set; the library's
own tests compare them with each other, and so does the model.

## 2. Modules

| module | models | kind |
|---|---|---|
| `AncillaPool` | what an ancilla manager promises | abstract specification |
| `ResourceManager` | `compile/resource/manager.rs` | component, implements `AncillaPool` |
| `McGateDecomposer` | `mc_gate/decomposer.rs` on top of one manager | composition, EXTENDS `ResourceManager` |
| `PlanningSession` | `device_planning/session.rs` | component, concurrent |
| `PlanningRegistry` | `device_planning/registry.rs` | component, concurrent |
| `DevicePlanner` | `device_planning/planner.rs`, `cost.rs`, `templates.rs` | algorithm as a state machine |
| `LazyPairCache` | the pair-bound caches of `compile/sabre/routing.rs` | component, concurrent |
| `SabreRouting` | one trial of `compile/sabre/routing.rs` with `dag.rs`, and the run of its result | algorithm composed with the semantics of its output |
| `VirtualPermutation` | `transform/virtual_permutation.rs`, composed with routing as `workflow.rs` does | composition |
| `RewriteSession` | `transform/rewrite/` and the revisions and proofs of `workflow.rs` | composition |
| `Statevector` | Clifford gates, measurement and expectations of `statevector.rs`, `observable.rs` | pure operators |
| `StabilizerState` | `stabilizer.rs`, run next to the statevector | component with its reference, EXTENDS `Statevector` |
| `MC*` | instances for TLC | |
| `ResourceManagerProofs`, `DevicePlanningProofs`, `PlanningRegistryProofs`, `LazyPairCacheProofs`, `RewriteSessionProofs`, `RoutingProofs`, `StabilizerStateProofs` | theorems (those about the decomposer are in `ResourceManagerProofs`, those about virtual permutations in `RoutingProofs`, those about the planning session and the planner in `DevicePlanningProofs`) | TLAPS |
| `FoldTheorems` | sums over finite sets and flattened sequences, on which the theorems about limits, counts and edit scripts rest | lemmas, TLAPS |

### ResourceManager and AncillaPool

State: for every manager its `phase`, `resources` (as `origin`, a function from
qubits to where they come from), `leased_qubits`, `active_leases`, `revision`
and `next_lease_id`; the circuit's qubits; and what callers hold, `plans` and
`leases`. `FromCircuit`, `Preview`, `Commit`, `Release`, `EnterPostLayout` are
the five methods; `AddQubit` is the owner of the circuit calling
`Circuit::add_qubits` behind the managers, `DropPlan` a caller losing interest.
A call that fails changes nothing and is a stuttering step, so every error path
is a conjunct of a guard. `commit` consumes its plan, but plans are `Clone` and
the Python binding clones before committing: the plan stays with the caller and
may be committed again. Released leases stay in `leases` for the same reason.

A plan carries, as a history field, the request it answers. That is what lets
`FreshPlanIsCurrentAnswer` ask for the real meaning of the revision: while it
has not changed, the preview would still give the same answer.

`AncillaPool` has neither previews nor revisions nor indexes. Its grants never
overlap, never reuse an identity, are clean only when made of qubits the pool
made, and no qubit is made once it is frozen. `ImplementsPool` maps `phase` to
`stage`, the two origins to `borrowed` and `made`, active leases to `grants`
and the leases no longer active to `returned`.

### McGateDecomposer

Extends `ResourceManager` with the control of the pass, one action per step of
`try_cached_resource_candidate`: the request may be unavailable, the preview is
synthesized or rejected, committed and released. `Candidates` lists the
requests of `synthesize_pauli` and `synthesize_with_optional_clean` in the order
they are tried. What synthesis returns is free (error, all ancillas used, some
unused) but remembered in `rules`, because the rule cache must answer the same
for the same shape. The cache keys on the gate, its number of controls and
targets, its parameters and the resource; `Shape` has the class and the controls,
so a class stands for gates with the same parameters, and two gates of a class are the
case in which the cache is hit. Every error of the bookkeeping that the code maps to
`InvariantViolation` leads to the state `InvariantViolation`.

### PlanningSession

One action is one critical section of the session's mutex: `ServeCached`,
`ServeCombined`, `TakeOff` and `Wait` are the four outcomes of looking under the
lock; `Land` is the section after planning, `Panic` a planner that unwinds. The
planner's result is any plan of the missing roots and of some roots of their
selected trees, or an error. `CounterWith`, `BatchesWith`, `Kept` and `Store`
are `insert` with its replacement, byte counter and eviction loop. The real
byte estimate counts shared subtrees once; here each root has a weight, which
keeps what matters: the estimate is a function of the batch.

### LazyPairCache

`lazy_pair_lookup_or_compute` takes two kinds of locks, that of the shared cache
and that of one flight; an action is one section of either. `Hit`, `Join` and
`Lead` are the three outcomes of looking into the cache; `Sleep`, `Receive` and
`Retry` the three states a joined flight may be found in. A leader searches and
then publishes in three steps (`Publish`, `StoreValue`, `Notify`), or panics and
its drop guard withdraws in three (`Abort`, `Withdraw`, `Leave`). `Ask` and
`Return` are the trial's own cache around the lookup; a lookup without a
`TrialPairCache` is the same with trial budget zero.

Flights are addresses: `Free` says that no `Arc` refers to one, and only then may
`Lead` use it again. That makes the two pointer questions of the code real,
`ptr_eq` in the guard and the unconditional removal in `publish`. Bounds are a
function of the key, as the search depends on the target alone.

### PlanningRegistry

Knowledge is an address with a namespace, a common cache and an atomic weight;
`Free` says, as for the flights above, that no `Arc` refers to it. `ShareKnown`
and `ShareNew` are the section of `shared_knowledge`, `Refresh` that of
`refresh_registry_entry`; both end with the eviction loop, whose outcome is
`Kept`. `PrepareCached`, `PrepareMissing`, `Land` and `Fail` are
`prepare_common` around its planning, which keeps the mutex of one common cache.
`StoreWeight` is a step of its own: the bytes are measured under the mutex and
stored after it is dropped. Two threads may store in the wrong order, and then an
entry is counted too light until the next planning for that device stores
anew; `WithinLimits` is therefore about the weights that were stored.
Weights count plans, on top of a base weight per namespace. What planning stages is any
plan of the missing roots and of requested ones, which may contradict the cache.

### DevicePlanner

`Expand` interns the states below the roots, `Leaf` inserts native leaves,
`NextEdge` and `Try` are the loops of `solve` over edges and over the child
combinations not explored before, `Repeat` the end of a round, `Select` the
choice at the fixpoint. `Assembled` puts the plan of a combination together, child
by child. Costs keep the counts, the error and the two max-plus
depth profiles with their algebra (`Layer`, `Embedded`, `Followed`), dominance
(`NoWorse`) and the objective. Durations are a further profile and sum of the
same build and are left out. Templates reverse a directed gate between dressings
or exchange the operands of a symmetric one. `Begin` plans another batch of
roots for the same device, which is what makes two batches comparable.

When several plans of a state have equal objectives, the batch may decide which
is selected: pruning compares ties only between equal profiles. The
session's `insert` would report that as conflicting plans; whether the
built-in rules can produce it is not decided here, and `CostsAgree` claims
agreement on costs only.

### SabreRouting

A block of operations becomes the graph of `SabreDag::from_operations`. A
`Frame` on the `stack` is the `RoutingState` and output of one block; control
flow pushes a frame for each body (`EnterBody`, `LeaveBody`, `CloseFlow`).
`Wait` and `Emit` are `update_route`; `Seek`, `TrySwap`, `GiveUp`, `ForceSwap`
and `Forced` are the search: which SWAP scores best is left open, so every
candidate may be tried, and hashes of layouts may collide. The layouts tried are
remembered until the search ends, where `MappingCycleDetector` forgets those
older than 32 attempts (`compile/sabre/routing.rs:3503`); with an `AttemptLimit`
below that there is no difference. `Restorations`, the
epilogue of a body, stands for the token swapper, a library: the shortest sequences
that restore the layout. The real one is approximate and may return longer
ones, which `route_control_flow_body` accepts as long as they restore the layout; the
layout behind them, all the properties depend on, is the same. Devices have no
native costs, so being adjacent is all a pair needs.

The second half of the module runs the routed circuit (`Run`, `Branch`,
`Return`, `Jump`), following where each logical qubit really is along every
branch, number of iterations, `break` and `continue`. The properties about operands and
layouts are about these runs, not about the router's own bookkeeping.

### VirtualPermutation

`Elide` and `Preserve` are the pass, one operation each; with control flow in the
circuit nothing is elided, and a labelled SWAP stays. `Place`, `EmitOperation` and
`Move` are routing, reduced to what is proved of `SabreRouting`; `Report` composes the
layouts. (Names differ from those of `SabreRouting` because `RoutingProofs` extends both.) Three histories say what wires hold, symbolically: the input of a
qubit, or what an operation made of its operands. The optimizations between the
pass and routing leave every wire what it holds and are left out; routing emits operations in
circuit order here, as reordering disjoint ones changes nothing.

### RewriteSession

A circuit is a sequence of one-qubit gates, of which some have no rewrite key
and separate blocks. `Pass` replaces the circuit with an edit script (linear, by
a bijection of qubits, or unknown), `OptimizeNative` and `Canonicalize` are the
passes with a proof of their own, `Detach` a branch of the route beam. `Scripts`
are what `valid_replacements` accepts: replacements in order, of any range by
anything, where one may be empty on either side and may begin where the one before
it ends. `MaxEdits` and `MaxInserted` bound how many there are and what one inserts, `MaxLen`
the circuit before and after; the proofs hold for all values of them.
`MCSpec` adds to `Spec` the passes of an instance with larger bounds, `LargerPass`,
in the states in which an edit carries a proof over: elsewhere the session forgets
the proof, or does not look at it, whatever the script is.
`Rewrite`, `Round` and `Record` are an execution: which anchors it scans
first and from which keys, one round of disjoint patches, and the certificate
left. The revision counter wraps at `Revisions`. Matching follows the window, commutation and
filters of the matcher; rules and configurations are constants.

### Statevector and StabilizerState

A basis state is the set of qubits that are 1; a Pauli string is the set of
qubits with an X part, that with a Z part and a power of i. Clifford
states have amplitudes that differ by powers of i, so Gaussian integers up to a
common factor represent them exactly: kernels are written without 1/sqrt(2) and
`Rescaled` divides by one amplitude. `Rotated`, `Coupled` and `Projected` are
the gates and the collapse; `DensityMatrixExpectation` and
`StatevectorExpectation` the two functions of `observable.rs`.

`StabilizerState` keeps a `tableau` of rows. The gates are per row, as in the
code, CZ and CY inlined as H, CX, H and SDG, CX, S. `Product` is `rowsum` with
its word-wise phase, `Collapsed` the random case of `measure` and
`force_measure`, `Scratch` the row in which the deterministic case accumulates.
`ProbabilityOf` and `PauliExpectation` work on copies as their functions do; the
latter is the whole elimination, columns of the X block and then the Z block.
The variable `amplitudes` is the statevector simulator given the same calls and
the same outcomes. It is the reference the queries are held to. Words,
SIMD, random numbers and failing calls (which change nothing) are left out.

## 3. Runs

| run | question | bounds |
|---|---|---|
| `resource_manager` | are leases exclusive and clean, plans current and failures traceless; is the manager an ancilla pool? | two interchangeable managers, one input qubit and an owner who may add one more behind them, identifiers up to 3 and counters up to 4 so that all overflow and a released qubit is leased again while a clone of its old lease is about, policy of 2 ancillas, capacity 3 of 4 identifiers, one plan in flight at a time |
| `mc_gate_decomposer` | can the pass meet its own invariant violations, widen the circuit in vain, or hang? | two operations of every class on every operand set, policy of 2 ancillas with dirty borrowing, capacity 6 |
| `planning_session` | do three threads keep the cache coherent and within limits, lose no wakeup, and does every call return? | three roots with one dependency and unequal weights, four sets of roots that overlap and nest, two contradicting plans per root, two entries, 3 bytes with one root of weight 2 (so that one batch can be oversized and both limits bite), four calls |
| `planning_registry` | are the limits kept in LRU order and do all who share knowledge get one plan per SWAP? | two threads, three namespaces of which two fit, four addresses (so that one can be evicted, held and replaced), two roots with two plans each, weight limit 2 with a base weight that makes one entry too heavy, five accesses |
| `device_planner` | does the Pareto search end, at a fixpoint that lost no plan, with costs that do not depend on the batch? | eleven states of nine gates, every subset of five native gates with two errors each, a cyclic library, two batches out of four; frontiers of 2 plans, 14 plan nodes, 20 candidates: each limit is hit on some device |
| `lazy_pair_cache` | can two threads search for one bound, a wrong bound be returned, a wakeup be lost, a lookup hang? | three threads (leader, sleeper, newcomer), two keys, three flights, both budgets 1: neither cache can hold both keys, so bounds are searched for again |
| `sabre_routing` | does every gate act where its operands are, whatever is tried and whichever way the circuit branches, and does routing end? | four qubits on a line of five, two initial layouts, a circuit with a folded pair, a loop with `continue`, a switch with `break`, a global phase; two speculative SWAPs before giving up |
| `sabre_nested_break` | is a loop layout-neutral when a branch inside it breaks? (violated, see below) | a loop whose body routes a distant pair before an `if` with a `break` |
| `virtual_permutation` | is each output where the final layout says? | all circuits of up to 4 of eight operations on three qubits, all placements of them and an ancilla on four physical qubits, SWAPs between any two |
| `rewrite_session` | would what proofs let a pass skip have changed nothing? | circuits of up to three gates of two keyed and one unkeyed kind on two qubits, three configurations, two rounds, one replacement per edit script, of any range by at most one operation, and on circuits of one qubit whose proof an edit carries over two replacements, of any ranges (adjacent and empty ones included) by up to two operations each (`LargerPass`), interchangeable qubits, a counter that wraps after 3 revisions; the dirty share that forces a full scan is 75 per cent instead of 50, so that a partial scan of so short a circuit occurs |
| `stabilizer_state` | does the tableau stay symplectic, and do all queries say what the amplitudes say? | two qubits, nine gates on one and four on two, measurement and reset of either: all 11,520 tableaux there are (720 symplectic matrices and 16 choices of signs), each with all four outcomes and all 64 Pauli strings |
| `statevector_y_sign` | do both simulators report the same expectations? (violated, see below) | one qubit, H and S |

The bounds are small but every limit of the code is reached within them: the
last identifier, the last revision, the last lease id, the policy, the
capacity, the cache's entries and bytes, an oversized batch, the wrapped
revision, each limit of the planner, the attempt limit. Two managers
suffice because managers interact only through the circuit; three threads are
needed for one to plan, one to wait and one to evict. In the registry two
threads suffice, as what one holds while the other evicts is the only
interaction; its clock bound allows an entry to be evicted, replaced and
refreshed by the session of the first. Four operations let two SWAPs that do
not commute surround a gate, which is what tells a wrong order of composition.
No call of the simulators acts on more than two qubits, and two rows meet only
qubit by qubit in `Product`; two qubits already give products whose
corrections of both signs add up.

`CHECK_DEADLOCK FALSE` appears where the bounded number of calls or the last
revision lets the modelled system come to rest, in the pair cache's run,
where every trial may have panicked, and in the runs of routing, which end. The
runs of the decomposer, of the planner, of the rewrite session and of the
simulators check deadlock.

Fairness. `planning_session` assumes weak fairness of looking and of
landing, per thread: the operating system schedules a runnable thread, the
mutex is not held for ever (its sections contain no call that blocks), and the
planner terminates. Nothing is assumed of new calls, failures, panics or
spurious wakeups. With endless calls a waiter could be overtaken for ever by
others whose plannings fail or are evicted; that is so in the code too, so
progress is claimed for any bounded number of calls. A planner that panics
strands everyone who needs one of its roots, because no guard removes its
flight; the property states that exception (`Stranded`). `lazy_pair_cache`
assumes per thread that it keeps running until its lookup ends and that the
search ends, with a bound or a panic; no exception is needed, because a panicking
leader's guard hands over to those who waited. The decomposer's run and
`sabre_routing` assume that a sequential loop takes its next step; the outcome of each
step (which SWAP is tried, what synthesis answers) stays free. The planner's
search needs no fairness: every step lowers a measure (`SearchAdvances`), whose
first component is the node budget that is left, so it is the budget and the finite
rounds between two plans that end the search, not dominance, and
none is missing.

### Divergences

`sabre_nested_break` checks what the documentation of
`route_control_flow_body` says (`compile/sabre/routing.rs:3742`): every body exits
with the mapping it entered with, "whichever branch or iteration executes".
TLC finds otherwise. The epilogue that restores the entry layout is
put before a transfer only if that ends the very body being closed. A `break`
in an `if` inside a loop restores the layout the `if` was entered with, which
routing inside the loop's body has already changed, and leaves the loop with it; the
parent continues with the layout at the loop's entry, so later gates act on
the wrong qubits. The circuit builder and the verifier accept such a circuit
(`circuit/circuit_classical.rs`, `circuit/circuit_verify.rs`), and
the router's tests cover a transfer directly in the loop's body. In
`sabre_routing` transfers end the body of their own loop or switch, and there
`BodiesAreNeutral` holds.

`statevector_y_sign` checks what a test asserts of circuits and observables
(`qis/state/state_test.rs:723`): the expectation from the statevector is that of
the stabilizer simulator. After H and S on one qubit, which prepare the +1
eigenstate of Y, the stabilizer simulator and the density matrix say 1 and
the statevector says -1. `expectation_statevector` (`qis/observable.rs:416`)
takes the sign of the Z part from basis state j while the amplitude it
multiplies is that of j ^ x_mask; that is the matrix ZX, and `y_phase` is the factor of
XZ (`qis/pauli.rs:811`). Strings with an odd number of Ys have the wrong sign. The
Hamiltonian's version (`observable.rs:186`) does the same. The test's observables have no
single Y. `expectation_density_matrix` takes the sign from the column and is right.

A further disagreement keeps two gates out of `stabilizer_state`.
`StabilizerState::apply_y2p` is documented as Ry(pi/2) with X to Z and Z to -X
(`stabilizer.rs:908`); what it does is that map, but Ry(pi/2), as
`Statevector::apply_y2p` (`statevector.rs:1591`) applies it, takes X to -Z and Z
to X. `apply_y2m` is the inverse in both. With "Y2P" among `OneQubitGates`,
`QueriesAreExact` fails after one call: on |0> the statevector gives
(|0> + |1>)/sqrt(2), whose expectation of X is 1, and the tableau -X. The tests
of the gate (`stabilizer.rs` and its test module) check its order and inverse,
which both signs pass. `Symplectic` holds with these gates, and is proved with them.

## 4. Proofs

All theorems hold for every value of the constants satisfying the named
assumptions of the modules: finite sets of managers and roots, natural bounds.

`ResourceManagerProofs`. The inductive invariant joins the type invariant, the
partition of the leased index by the active leases, ids below the counter, the
link between origin, circuit and managers, budgets, and the freshness of plans.
The difficult part is that a plan was made from a state that no longer exists:
the invariant says that a plan with the current revision equals the preview
now. From it follow `LeasesExclusive`, `CleanSupply`,
`FreshPlanIsCurrentAnswer`, `FreshPlanCommits`, `PlanMeetsRequest`, and step by
step the refinement `ImplementsPool`.

The same module proves the decomposer, which extends the manager. Its pass is a
sequential loop, so the invariant (`PassInv`) describes each point of it: which
plans and leases the pass holds (`PassPlans`, `PassLeases`), that it alone uses
its manager (`PassOwns`), and the shapes of loop variables (`PassShape`). A step
of the pass is a step of the manager or leaves it alone (`PassKeepsProtocol`),
so everything proved of managers holds during the pass. `BookkeepingSound` is the
claim that matters: none of the errors the code maps to `InvariantViolation`
can occur, because a plan is committed in the state it was previewed in and a
lease is released while it is active. `NothingIdle` and `AncillasNeverOperands`
are about the circuit produced. The assumptions `ManagerExists`,
`CountersSuffice` and `RequestsCovered` are named in `McGateDecomposer`: a pass
creates its manager, performs two revisions per operation, and the bounded set
of requests contains those it makes. `CountersSuffice` keeps the modelled
counter from running out; the code's has 64 bits and a circuit with 2^63
operations does not exist.

`DevicePlanningProofs`, about `PlanningSession`. The invariant joins the shapes of the thread variables
and of the cache, that a planning thread's `local` and `missing` cover its
request, and `FlightsApart`, `WaitersHaveFlight`, `CacheCoherent`. From it follows the action property `SnapshotsComplete`. A second invariant
(`AccountsInductive`) is about the counter of bytes, which the code updates by
addition and subtraction: it equals the sum of the sizes of the cached batches. From it
`TypeOK` (the subtraction never underflows) and `CacheWithinLimits` follow.

`DevicePlanningProofs`, about `DevicePlanner`. All of its properties, for any finite
library of rules and templates, any device, any batches of roots and any limits. The
assumptions say that names are numbers, that rules are finite in number and differ in
name, and that the states are closed: what a state decomposes into is one of `States`, on
qubits of its own (`CandidatesAssumption`; roles are positions in the operands of the
gate). The argument:

- Costs. Profiles of delays are finite functions; appending one (`Followed`) and
  embedding it (`Embedded`) keep their order, so that cheaper children make a cheaper
  plan (`AssembledMonotone`), and a plan costs no less than any child. `NoWorse` is
  reflexive and transitive; if it holds, `Objective` is not greater.
- Shape (`Structure`). What there is of states, edges, plans, frontiers and the
  search fits together. `PlannerTypeOK` follows: children are built before their
  parents, no state is below itself, and frontiers and arena keep their limits.
- Termination. Each step of the search lowers `Remaining`, five naturals compared as a
  key: a plan is built, or the round loses its flag, or an edge, or a combination.
- Pruning (`Matches`). A plan leaves its frontier only for one that costs no more, so
  whatever was inserted or tried has a match there. What was refused as cyclic has one,
  too, though nothing was inserted for it: everything in the ancestry of a plan has a plan
  that costs no more (`AncestryCheaper`), and that one has its match. A round in
  which nothing changes has explored every combination of the frontiers it ends with
  (`RoundComplete`). `NothingLost` follows.
- Optimality (`Agreement`). An `Arena` is any finite sequence of plans, each a native
  instruction or any decomposition into earlier ones, with no pruning, no order of
  discovery and no refusal of cycles. What the planner builds is one (`Genuine`). By
  induction over an arena, `NothingLost` and monotone costs, each of its plans is matched
  when the batch is done (`ArenaMatched`). So the selected plan is the best
  there is, and none is selected only if there is none (`SelectionIsOptimal`, stated of
  infinitely many arenas and therefore of no run). The best cost is unique and depends on the
  device only, so batches agree (`CostsAgree`).

All of this is about batches that end ("Done"); one that hits a limit answers with an
error. The costs are those of the model, without durations.

`LazyPairCacheProofs`. The five facts that make `OneLeader`, `SleepersHaveLeader`
and `AnswersAreBounds` inductive are about references: a flight is held by at
most one leader, all who hold it want the same key, a leader's position fixes
the state of its flight (`Landing`), a waiter whose flight is Pending has a
leader still searching, and an address is reused only when nobody holds it.
They hold for any number of threads, keys and addresses and any budgets.

`PlanningRegistryProofs`. The invariant adds to the types that whoever plans
holds the mutex of its cache, that registered knowledge has the namespace it is
registered under, and that what is pinned for a thread is still in the cache it
came from (which needs that merging keeps whatever was there, `MergedKeeps`).
From it follow `AnswersAgree` and the action property `RecencyIsEarned`, in which the
pointer comparison of the refresh is needed: an entry becomes more recent only
for the thread that steps and whose own knowledge it is. (The eviction of a
stale session's refresh still spares the entry that took the place of its own, since it
protects a namespace; that is not recency and the property does not speak of it.) `LimitsKept` shows that the
eviction loop leaves a registry within both limits or with one entry;
`EvictsLeastRecent` that it removes the least recently used, which needs that no two
entries have the same last access (`EntriesApart`) and that whatever fits still
fits after another entry is taken out (`FitsMonotone`).

`FoldTheorems`. The community modules define a sum as a fold that chooses
elements one by one. The lemmas say that it does not depend on the choice:
taking out any element (`SumTakesOut`), splitting, monotony. Likewise a
flattened sequence of sequences grows by one of them at a time (`FlattenJoins`).
They are proved by least counterexamples (`NatLessThanWellFounded`), not by the
library's induction rules; `CountUp` is the induction the other modules use, over
the set of indices a statement holds for.

`RewriteSessionProofs`. `CanonicalProofIsFresh` for any circuits, rules and
lengths: no proof is ahead of the revision, an advance leaves every proof
behind or, when it wraps, drops it, and a proof of the current revision is about
the current circuit until a rewrite under way has changed it. `WorkspaceCurrent` (the keys and the gate counts kept with a certificate are
those of the circuit) rests on what an edit script does, for any script that
`valid_replacements` accepts, of any number of replacements of any lengths, adjacent
or not: its gaps partition what it keeps (`GapsClean`), the circuit after it
grows by a replacement and a gap at a time (`AfterGrows`), so keys spliced in the
same way stay keys (`SplicedKeys`, `PatchedKeys`) and counts add up gap by gap
(`RecountedCounts`), also when wires are renamed. The certificate is never of a
later revision, which is why a wrap must drop it. The assumption `RuleShapes` says that
there are finitely many rules with a source, made of keyed gates, and that
windows and pattern lengths are natural numbers.

`SkippedAnchorsAreClean` is the theorem `SkippedClean`. The inductive invariant,
`AnchorsClean` with `WInv`, says more than the property: nothing matches at an
anchor outside the pending ones of a certificate in force, under the
configuration of the certificate itself, and likewise for the anchors a rewrite
under way leaves out, although a round changes the circuit under the revision.
The argument:

- What `Found` computes is characterised without its recursion (`Fires`: a chain
  of first fitting positions). The recursive function is shown to have a
  solution by extending it item by item (`ItemsExist`).
- A match reads the operations from its anchor to its last item and no other
  (`FiresShifted`), and these are all keyed and at most `Reach` after the anchor
  (`FiresWithin`). What is seen the same, shifted and with wires renamed one to
  one, matches the same.
- After an edit script, an anchor that is not pending looks at one gap only: the
  range that `map_and_invalidate_ranges` takes before every replacement is as
  wide as a match reaches (`OutsideTouched`, `EditedClean`).
- After a round, every operation of the patched circuit comes of one place of
  the old one, in order (`PlaceByPlace`, `PatchFronts`), and the ends of a patch
  are where the sums of `dirty_ranges_after_patches` put them (`PatchEnds`, also
  relative to a block, `BlockLengths`). A match at an anchor that is not dirty
  would then look at a part that no patch touched, so it was there before: in
  the scan, where the selection is maximal and would have taken it or something
  it overlaps, or outside, where nothing matched (`RoundClean`,
  `UnscannedClean`).
- A configuration that the proof serves matches nothing the proof's does not
  (`FiresSubset`); with a target instead of none, because every gate counted is
  already in the target.

`TypeOK` (`SessionTypes`) follows from the same lemmas: the ranges stay inside the
circuit they are about (`MappedInside`, `DirtyInside`, `DirtyBlocksInside`).

`RoutingProofs`, about `SabreRouting`. `TypeOK` and `RoutedOnceInOrder` for any
program, device, initial layouts and attempt limit; `OperandsInPlace` and
`BodiesAreNeutral` for programs in which `ExitsAreDirect`. The assumptions are those
of `SabreRouting`: programs are what `Circuit::validate` accepts, layouts place all
qubits one-to-one, the device is finite and connected. The argument:

- Graphs. `from_operations` is a fold; it is shown to have a solution that can be
  followed one operation at a time (`BuildsExists`), and each operation is kept
  ahead of the graph, joins a node or becomes one (`AddedIs`). Then `DagIsGraph`:
  every operation is in one place, parents come before children, and what must come
  first is in an ancestor or earlier in the same node.
- Progress. What is released and what still waits for parents splits a graph
  (`Progress`): a node is queued or waits in the front layer when its parents are
  done, and is done once. A plan that `Covers` what is done holds those operations
  once and in order, since every predecessor of a node is done before it.
- Layouts. A plan `Leads` from one layout to another: each operation acts where the
  layout behind its predecessors has its qubits, SWAPs are on edges. SWAPs that are
  tried and rolled back leave layout and cached pairs where they were (`AllUndone`),
  and forcing a pair shortens its distance at every SWAP, so that it ends.
- A frame that is `Good` has all of this, and `Stacked` says it of the stack, with
  frames above the first routing bodies of the control flow below. Each action keeps
  it. A `Body` leads back to the layout it is entered with; it is defined by the
  existence of a set of bodies closed under nesting, which avoids recursion.
- The execution is `Nested`: each frame of control is at some operation of a plan
  that leads, and `held` is the layout there. A transfer leaves frames, and it is here
  that `ExitsAreDirect` is used.

`ExitsAreDirect` asks that a `break` or `continue` stand in the body of the loop or
switch it leaves, and that no global phase of a block ending in one follow a classical
effect or control flow. Both are needed: the run `sabre_nested_break` and the
program `Phased` of `MCSabreRouting` violate one each, and `BodiesAreNeutral` with
it. The program `Structured` of the passing run satisfies it, with a loop left by
`continue` and a switch left by `break`. `TypeOK` and `RoutedOnceInOrder` do not need it.

`RoutingProofs`, about `VirtualPermutation`. `OutputsWhereTold` for any circuit, device,
placement and sequence of SWAPs. The lemma `AppliedAgrees` says that
a one-to-one renaming of wires carries what they hold through any operation; the
invariant uses it twice, for the permutation between the original circuit and
the rewritten one, and for the layout between the rewritten circuit and the
device. Their composition is the claim. `trace` is needed because the router
starts over at the first rewritten operation.

`StabilizerStateProofs`. `Symplectic` is inductive as it stands, for any number of
qubits and all fifteen gates. The argument is about the parity of `Clash`, the qubits
on which two rows differ: a gate on one qubit leaves that set alone, CX and
SWAP change it on two qubits or none, CZ and CY are made of these, and a
product has the symmetric difference of its factors' sets
(`ParityOfSymDiff`). `CollapseIsSymplectic` is the measurement: rows that
commute with the pivot still do after being multiplied by it, and the one
that does not is the one that is overwritten.

`TableauDescribesAmplitudes` and `QueriesExact` hold for any number of qubits, under
`GatesAgree`: the gates on one qubit are among I, H, S, SDG, X, Y, Z, X2P and X2M. Y2P
and Y2M are left out because with them the claim is false (end of section 3); the
passing run uses exactly these nine. The argument:

- `Described`: each stabilizer fixes the amplitudes. A row moves a basis state and
  turns its amplitude by a power of i (`Exponent`, `Fixes`); a product of rows that
  fix the state fixes it (`ProductFixes`), which is where phases modulo 4 and their
  correction of both signs are accounted for.
- Gates. What a gate's matrix does to a pair of amplitudes matches what `apply_*` does
  to a row, sign included: a `Rule` for each of the nine gates. CX and SWAP move
  amplitudes, CZ and CY are a gate on the half where the control is 1. `Described` is kept
  gate by gate (`RotatedDescribed`, `CoupledDescribed`).
- Measurement. The outcome is random exactly if some stabilizer clashes with Z on that
  qubit. Then what is left is described by the collapsed tableau
  (`CollapsedDescribed`); otherwise the product of the stabilizers that
  the destabilizers point to is Z itself, and nothing is lost (`DeterminedKeeps`).
- Amplitudes are divided by common factors after a measurement (`Rescaled`). That this
  loses nothing needs that the stabilizers are independent, so that any two
  amplitudes that are not 0 differ by a power of i (`Shape`).
- `probability_of`: forcing the qubits one after the other keeps all of the weight or
  half of it (`KeptIsHalf`, `ForcedAgrees`), and what is left in the end is one amplitude.
- `pauli_expectation`: the rows that the elimination has chosen are in echelon form, the
  rows still generate what they generated, and still fix the state (`Echelon`,
  `Generates`, `Stands`). A query that commutes with all stabilizers is used up
  (`RestIsTrivial`), and its sign is that of the product; for one that does not,
  the terms of the sum over the amplitudes cancel in pairs (`AnticommutingTerms`).

The sums over basis states are `SumFunction`, about which `FoldTheorems` has what is
needed; the loops over columns and qubits are recursive functions on intervals, shown
to be defined (`LoopExists`) and then followed one step at a time (`CountUp`).

`MeetsRequest`, `FreshCommits` and the type theorems of the registry and the
pair cache state facts that no run lists any more, since they are proved for
every instance.

Only model-checked: all liveness, that routing ends (`RoutingEnds`) included, which
is out of the provers' reach; every invariant that a passing run checks is also
proved. That the planner's search ends is a measure, not a liveness property:
`SearchAdvances` is proved, that no step is missing is checked by the run (no
deadlock).

One remark on reading the modules: SANY and tlapm disagree on the precedence of
`SUBSET` and `UNION` against set operators, so such expressions are parenthesized
throughout.

## 5. Plan

1. done: ResourceManager, McGateDecomposer, PlanningSession, LazyPairCache, and
   proofs about all of them.
2. done: PlanningRegistry and its proofs.
3. done: RewriteSession with the revisions of the workflow, and the proof about
   canonical circuits.
4. done: SabreRouting with the execution of its result, VirtualPermutation, and
   proofs about both; DevicePlanner and its proofs.
5. done: Statevector and StabilizerState, and the proof that they agree.
6. open: the route beam of the workflow and its recoverable errors; layout
   trials and native costs of SABRE; imputation of calibration data and shared
   SWAP graphs in the planner; the bounded loop of native optimization;
   chunking of parallel trials.

## 6. Not modelled

Floating-point code (simulation of gates outside the Clifford group, noise, KAK
and Euler synthesis, matrices, metrics, error mitigation) has no finite instance worth
checking. Sampling and the classical data of simulated circuits repeat
measurement. Parsers, printers and
renderers are layout of text. Bindings convert values. Device descriptions are
immutable inputs. The synthesis primitives of multi-controlled gates are
represented by what their caller reads of the result. The remaining parts are
in the plan.
