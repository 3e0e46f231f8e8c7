-------------------------- MODULE McGateDecomposer --------------------------
(***************************************************************************)
(* The pass that decomposes multi-controlled gates                         *)
(* (compile/transform/decompose/mc_gate/decomposer.rs), the in-tree user   *)
(* of the ancilla manager.  It rewrites the operations of one circuit in   *)
(* order.  For each it tries synthesis candidates, from the cheapest to    *)
(* the no-auxiliary fallback: preview, synthesize with the previewed       *)
(* qubits, and only then commit and release.                               *)
(*                                                                         *)
(* Synthesis is pure and is reduced to what the pass reads of its result:  *)
(* whether it succeeded and whether it used every offered ancilla.  It is  *)
(* a function of the gate's shape and the candidate, not of the qubits,    *)
(* which is why the rule cache may answer instead; it is left arbitrary    *)
(* and remembered in `rules`.                                              *)
(***************************************************************************)
EXTENDS ResourceManager, Sequences

CONSTANTS
    MaxOperations,     \* bound: multi-controlled operations of the circuit
    GateClasses        \* base gates, grouped by the candidates tried for them

ASSUME ManagerExists == Managers # {}
\* The pass commits and releases once per operation, on 64-bit counters.
ASSUME CountersSuffice == MaxOperations \in Nat /\ 2 * MaxOperations <= MaxCounter
\* Pauli: X, Y, Z and their controlled forms.  OneTarget: rotations, phases, H,
\* U and the QCIS gates.  TwoTargets: Ising rotations and SWAP.  FSim: FSIM.
ASSUME ClassesKnown == GateClasses \subseteq {"Pauli", "OneTarget", "TwoTargets", "FSim"}

M == CHOOSE m \in Managers : TRUE    \* McGateDecomposer.resources

VARIABLES
    pc,         \* control of the pass
    left,       \* source operations still to be rebuilt
    gate,       \* the operation being decomposed: [class, data]
    candidate,  \* index of the candidate being tried
    rules,      \* DecompositionRuleCache: [shape, algorithm, uses] records
    emitted     \* the decompositions emitted: [data, ancillas, clean]

passVars == <<pc, left, gate, candidate, rules, emitted>>
allVars == <<vars, passVars>>

Clean(n) == [requirement |-> "CleanZero", count |-> n]
Dirty(n) == [requirement |-> "Dirty", count |-> n]

Controls(g) ==
    Cardinality(g.data) - (IF g.class \in {"TwoTargets", "FSim"} THEN 2 ELSE 1)

\* The resource-assisted candidates in the order they are tried; what is left
\* when they run out is the construction without ancillas.
Candidates(g) ==
    LET c == Controls(g)
    IN  CASE g.class = "Pauli" /\ c > 2 ->
                 << Clean(2), Clean(1), Clean(c - 2), Dirty(c - 2),
                    Dirty(2), Dirty(1), Clean(1) >>
          [] g.class \in {"OneTarget", "TwoTargets"} /\ c > 1 -> << Clean(c - 1) >>
          [] g.class = "FSim" /\ c > 0 -> << Clean(c) >>
          [] OTHER -> << >>

Gates == {g \in [class : GateClasses, data : SUBSET InputQubits] : Controls(g) > 0}

\* Mutant: nothing is excluded.
RequestExcludingNothing(g, k) ==
    [requirement |-> Candidates(g)[k].requirement,
     count |-> Candidates(g)[k].count, excluded |-> {}]

\* The operands of the gate are excluded from its own ancillas.
Request(g, k) == [requirement |-> Candidates(g)[k].requirement,
                  count |-> Candidates(g)[k].count, excluded |-> g.data]

\* The bounds on requests leave room for those of the pass.
ASSUME RequestsCovered ==
    \A g \in Gates : \A k \in DOMAIN Candidates(g) : Request(g, k) \in Requests

\* What rules are cached by.  Gates of a class with different parameters would
\* have entries of their own; a class stands for gates that do not differ there.
Shape(g) == <<g.class, Controls(g)>>

PassInit ==
    /\ Init
    /\ pc = "Start"
    /\ left = MaxOperations
    /\ gate = CHOOSE g \in Gates : TRUE
    /\ candidate = 1
    /\ rules = {}
    /\ emitted = {}

\* McGateDecomposer::new; a circuit over the device's capacity is refused.
Start ==
    /\ pc = "Start"
    /\ IF Cardinality(circuit) <= TotalLimit
       THEN FromCircuit(M) /\ pc' = "Operation"
       ELSE pc' = "Failed" /\ UNCHANGED vars
    /\ UNCHANGED <<left, gate, candidate, rules, emitted>>

\* The next multi-controlled operation, at the top level or in a body of a
\* control-flow operation: both share one manager.
NextOperation ==
    /\ pc = "Operation" /\ left > 0
    /\ gate' \in Gates
    /\ candidate' = 1
    /\ pc' = "Preview"
    /\ plans' = {}                     \* plans of the last operation are gone
    /\ UNCHANGED <<circuit, manager, leases, left, rules, emitted>>

\* A candidate the policy cannot serve is skipped; a request the manager finds
\* malformed would be an invariant violation.
Unavailable ==
    /\ pc = "Preview" /\ candidate <= Len(Candidates(gate))
    /\ ~ (WellFormed(M, Request(gate, candidate)) /\ Feasible(M, Request(gate, candidate)))
    /\ candidate' = candidate + 1
    /\ pc' = IF WellFormed(M, Request(gate, candidate)) THEN "Preview"
             ELSE "InvariantViolation"
    /\ UNCHANGED <<vars, left, gate, rules, emitted>>

PreviewCandidate ==
    /\ pc = "Preview" /\ candidate <= Len(Candidates(gate))
    /\ Preview(M, Request(gate, candidate))
    /\ pc' = "Synthesize"
    /\ UNCHANGED <<left, gate, candidate, rules, emitted>>

NotCached(algorithm) ==
    \A r \in rules : r.shape # Shape(gate) \/ r.algorithm # algorithm

\* cached_synthesis: a cached rule answers, or the construction is synthesized
\* and its rule remembered.
Synthesis(algorithm, uses) ==
    \/ /\ [shape |-> Shape(gate), algorithm |-> algorithm, uses |-> uses] \in rules
       /\ UNCHANGED rules
    \/ /\ NotCached(algorithm)
       /\ rules' = rules \cup
            {[shape |-> Shape(gate), algorithm |-> algorithm, uses |-> uses]}

\* Mutant: a construction that leaves ancillas unused is committed as well.
SynthesizedUnchecked ==
    /\ pc = "Synthesize"
    /\ \E uses \in {"All", "Some"} : Synthesis(candidate, uses)
    /\ pc' = "Commit"
    /\ UNCHANGED <<vars, left, gate, candidate, emitted>>

\* The construction uses every previewed qubit.
Synthesized ==
    /\ pc = "Synthesize"
    /\ Synthesis(candidate, "All")
    /\ pc' = "Commit"
    /\ UNCHANGED <<vars, left, gate, candidate, emitted>>

\* Mutant: the same candidate is tried again.
CandidateRetried ==
    /\ pc = "Synthesize"
    /\ \/ NotCached(candidate) /\ UNCHANGED rules
       \/ Synthesis(candidate, "Some")
    /\ \E plan \in plans : DropPlan(plan)
    /\ pc' = "Preview"
    /\ UNCHANGED <<left, gate, candidate, emitted>>

\* It fails, or leaves an ancilla unused: the plan is dropped.
CandidateRejected ==
    /\ pc = "Synthesize"
    /\ \/ NotCached(candidate) /\ UNCHANGED rules
       \/ Synthesis(candidate, "Some")
    /\ \E plan \in plans : DropPlan(plan)
    /\ candidate' = candidate + 1
    /\ pc' = "Preview"
    /\ UNCHANGED <<left, gate, emitted>>

\* Any other error of a candidate, and any error of the last construction, ends
\* the pass; whatever is leased or planned is dropped with the manager.
SynthesisError ==
    /\ \/ pc = "Synthesize" /\ NotCached(candidate)
       \/ pc = "Preview" /\ candidate > Len(Candidates(gate)) /\ NotCached(0)
    /\ pc' = "Failed"
    /\ UNCHANGED <<vars, left, gate, candidate, rules, emitted>>

CommitCandidate ==
    /\ pc = "Commit"
    /\ \E plan \in plans :
          IF CommitChecks(M, plan)
          THEN Commit(M, plan) /\ pc' = "Release"
          ELSE UNCHANGED vars /\ pc' = "InvariantViolation"
    /\ UNCHANGED <<left, gate, candidate, rules, emitted>>

Emit(ancillas, clean) ==
    /\ emitted' = emitted \cup {[data |-> gate.data, ancillas |-> ancillas, clean |-> clean]}
    /\ left' = left - 1

\* The ancillas that occur in the emitted operations.
UsedAncillas(lease) ==
    IF [shape |-> Shape(gate), algorithm |-> candidate, uses |-> "All"] \in rules
    THEN lease.qubits ELSE {}

\* Mutant: the lease is dropped without being released.
LeaseForgotten ==
    /\ pc = "Release"
    /\ \E lease \in leases :
          /\ lease.id = nextLeaseId[M] - 1
          /\ Emit(UsedAncillas(lease), lease.requirement = "CleanZero")
    /\ pc' = "Operation"
    /\ UNCHANGED <<vars, gate, candidate, rules>>

\* Releases the lease just returned by commit and emits the operations.
ReleaseCandidate ==
    /\ pc = "Release"
    /\ \E lease \in leases :
          /\ lease.id = nextLeaseId[M] - 1
          /\ IF ReleaseChecks(M, lease)
             THEN /\ Release(M, lease)
                  /\ Emit(UsedAncillas(lease), lease.requirement = "CleanZero")
                  /\ pc' = "Operation"
             ELSE /\ UNCHANGED <<vars, left, emitted>>
                  /\ pc' = "InvariantViolation"
    /\ UNCHANGED <<gate, candidate, rules>>

\* No candidate was taken: the construction without ancillas.
Fallback ==
    /\ pc = "Preview" /\ candidate > Len(Candidates(gate))
    /\ Synthesis(0, "All")
    /\ Emit({}, TRUE)
    /\ pc' = "Operation"
    /\ UNCHANGED <<vars, gate, candidate>>

\* run_with_rule_stats: no lease may outlive the pass.
Finish ==
    /\ pc = "Operation" /\ left = 0
    /\ pc' = IF Idle(M) THEN "Done" ELSE "InvariantViolation"
    /\ UNCHANGED <<vars, left, gate, candidate, rules, emitted>>

Ended == pc \in {"Done", "Failed", "InvariantViolation"} /\ UNCHANGED allVars

PassNext ==
    \/ Start \/ NextOperation
    \/ Unavailable \/ PreviewCandidate
    \/ Synthesized \/ CandidateRejected \/ SynthesisError
    \/ CommitCandidate \/ ReleaseCandidate \/ Fallback
    \/ Finish \/ Ended

PassSpec == PassInit /\ [][PassNext]_allVars /\ WF_allVars(PassNext)

-----------------------------------------------------------------------------
(* Properties *)

\* The bookkeeping errors the pass reports as compiler invariant violations
\* never happen: what it previewed it can commit, what it committed it can
\* release, and it ends idle (try_cached_resource_candidate, run_with_rule_stats).
BookkeepingNeverFails == pc # "InvariantViolation"

\* Rejected candidates leave no trace: every ancilla the pass added to the
\* circuit is used by some decomposition it emitted (or by the one it is about
\* to emit), however often it previewed and gave up before.
NoIdleAncilla ==
    circuit \ InputQubits \subseteq
        (UNION {e.ancillas : e \in emitted}) \cup (UNION {l.qubits : l \in active[M]})

\* A decomposition never uses an operand as its ancilla, and takes the clean
\* ones only from the qubits the pass itself added, which no source operation
\* touches.
AncillasApart ==
    \A e \in emitted : /\ e.ancillas \cap e.data = {}
                       /\ e.clean => e.ancillas \cap InputQubits = {}

\* The pass ends, with a circuit or an error.
PassEnds == <>(pc \in {"Done", "Failed"})

=============================================================================
