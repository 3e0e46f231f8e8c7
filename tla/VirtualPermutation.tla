-------------------------- MODULE VirtualPermutation --------------------------
(***************************************************************************)
(* Where the outputs of a compiled circuit are found.  Before layout, the  *)
(* logical SWAPs of a circuit are removed and become a permutation of its  *)
(* outputs (compile/transform/virtual_permutation.rs); routing then moves  *)
(* the wires over the device and reports its final layout; the workflow    *)
(* composes the two into the layout it hands out                           *)
(* (apply_layout_and_routing in compile/workflow.rs).                      *)
(*                                                                         *)
(* What circuits do is followed symbolically: a wire holds its input, or   *)
(* what an operation made of its operands.  Routing is taken by what       *)
(* SabreRouting checks of it: operations in order on the wires' places,    *)
(* between SWAPs that layouts record.  (Routing may also reorder those on  *)
(* disjoint wires, which commute.)  The optimizations between elision and  *)
(* routing leave every wire what it holds and are left out.                *)
(***************************************************************************)
EXTENDS Integers, Sequences, Functions

CONSTANTS
    Qubits,       \* qubits of the circuit
    Ancillas,     \* wires added to it before routing
    DeviceQubits, \* qubits of the device
    Operations,   \* [gate, qubits, label, body]; body: operands inside a "Flow"
    MaxOps        \* bound: length of a circuit

Wires == Qubits \cup Ancillas

ASSUME OperationsAssumption ==
    \A op \in Operations :
        /\ op = [gate |-> op.gate, qubits |-> op.qubits, label |-> op.label, body |-> op.body]
        /\ op.qubits \in Seq(Qubits) /\ op.body \in Seq(Qubits)
        /\ op.gate = "SWAP" =>
              Len(op.qubits) = 2 /\ op.qubits[1] # op.qubits[2] /\ op.body = op.qubits

VARIABLES
    phase,       \* "Elide", "Route" or "Done"
    circuit,     \* WorkflowState::current before elision
    reached,     \* the operation the phase has reached
    perm,        \* VirtualPermutation::original_output_to_rewritten_output
    rewritten,   \* the circuit without its SWAPs
    placement,   \* where routing has the wires
    final,       \* DeviceCompilationMetadata::final_layout
    ideal,       \* history: what the circuit has on its qubits, and measured
    trace,       \* history: the same of rewritten, after 0, 1, ... operations
    device       \* history: the same of the routed circuit

permVars == <<phase, circuit, reached, perm, rewritten, placement, final, ideal, trace, device>>

-----------------------------------------------------------------------------
(* Exchange two values of a function. *)
Exchanged(f, a, b) == [f EXCEPT ![a] = f[b], ![b] = f[a]]

(* What f has on each qubit of a list. *)
Places(f, qubits) == [i \in DOMAIN qubits |-> f[qubits[i]]]

(* Operation on the places w: what they hold afterwards, and what it reads. *)
Applied(gate, w, held) ==
    IF gate = "SWAP" THEN Exchanged(held, w[1], w[2])
    ELSE [x \in DOMAIN held |->
            IF \E i \in DOMAIN w : w[i] = x
            THEN <<gate, {i \in DOMAIN w : w[i] = x}, Places(held, w)>>
            ELSE held[x]]

Performed(gate, w, m) ==
    [held |-> Applied(gate, w, m.held),
     read |-> IF gate = "Measure" THEN Append(m.read, Places(m.held, w)) ELSE m.read]

(* The operands an operation acts on: those of a Flow are in its body.     *)
Operands(op) == IF op.gate = "Flow" THEN op.body ELSE op.qubits

-----------------------------------------------------------------------------
HasControlFlow(c) == \E i \in DOMAIN c : c[i].gate = "Flow"

(* is_elidable_swap, in a circuit without control flow. *)
Elidable(c, op) == ~ HasControlFlow(c) /\ op.gate = "SWAP" /\ ~ op.label

PermInit ==
    /\ phase = "Elide" /\ reached = 1
    /\ circuit \in UNION {[1..n -> Operations] : n \in 0..MaxOps}
    /\ perm = [q \in Qubits |-> q]
    /\ rewritten = <<>>
    /\ placement = <<>> /\ final = <<>>
    /\ ideal = [held |-> [q \in Qubits |-> q], read |-> <<>>]
    /\ trace = [i \in {0} |-> [held |-> [w \in Wires |-> w], read |-> <<>>]]
    /\ device = <<>>

(* Mutant: the wires are exchanged, not the outputs. *)
SwapWires(left, right) ==
    [q \in Qubits |-> IF perm[q] = left THEN right ELSE IF perm[q] = right THEN left ELSE perm[q]]

(* swap_outputs. *)
SwapOutputs(left, right) == Exchanged(perm, left, right)

(* A SWAP leaves the circuit. *)
Elide ==
    /\ phase = "Elide" /\ reached <= Len(circuit)
    /\ LET op == circuit[reached] IN
        /\ Elidable(circuit, op)
        /\ perm' = SwapOutputs(op.qubits[1], op.qubits[2])
        /\ ideal' = Performed(op.gate, Operands(op), ideal)
    /\ reached' = reached + 1
    /\ UNCHANGED <<phase, circuit, rewritten, placement, final, trace, device>>

(* Another operation is redirected.  The body of a Flow is not. *)
Preserve ==
    /\ phase = "Elide" /\ reached <= Len(circuit)
    /\ LET op == circuit[reached]
           kept == [op EXCEPT !.qubits = Places(perm, op.qubits)]
       IN
        /\ ~ Elidable(circuit, op)
        /\ rewritten' = Append(rewritten, kept)
        /\ ideal' = Performed(op.gate, Operands(op), ideal)
        /\ trace' = [i \in 0..Len(rewritten) + 1 |->
                        IF i <= Len(rewritten) THEN trace[i]
                        ELSE Performed(op.gate, Operands(kept), trace[Len(rewritten)])]
    /\ reached' = reached + 1
    /\ UNCHANGED <<phase, circuit, perm, placement, final, device>>

(* Routing starts from some placement of all wires (external: the router). *)
Place ==
    /\ phase = "Elide" /\ reached > Len(circuit)
    /\ phase' = "Route" /\ reached' = 1
    /\ placement' \in {l \in [Wires -> DeviceQubits] : IsInjective(l)}
    /\ device' = [held |-> [p \in DeviceQubits |->
                              IF \E w \in Wires : placement'[w] = p
                              THEN CHOOSE w \in Wires : placement'[w] = p ELSE p],
                  read |-> <<>>]
    /\ UNCHANGED <<circuit, perm, rewritten, final, ideal, trace>>

(* An operation is emitted where its wires are. *)
EmitOperation ==
    /\ phase = "Route" /\ reached <= Len(rewritten)
    /\ LET op == rewritten[reached]
       IN  device' = Performed(op.gate, Places(placement, Operands(op)), device)
    /\ reached' = reached + 1
    /\ UNCHANGED <<phase, circuit, perm, rewritten, placement, final, ideal, trace>>

(* A SWAP is emitted on two neighbours, of which one may hold no wire. *)
Move(p, q) ==
    /\ phase = "Route"
    /\ device' = [held |-> Exchanged(device.held, p, q), read |-> device.read]
    /\ placement' = [w \in Wires |->
                       IF placement[w] = p THEN q ELSE IF placement[w] = q THEN p ELSE placement[w]]
    /\ UNCHANGED <<phase, circuit, reached, perm, rewritten, final, ideal, trace>>

(* compose_final_layout.  Every wire is placed, so it does not fail. *)
Compose == [q \in Qubits |-> placement[perm[q]]]

Report ==
    /\ phase = "Route" /\ reached > Len(rewritten)
    /\ phase' = "Done"
    /\ final' = Compose
    /\ UNCHANGED <<circuit, reached, perm, rewritten, placement, ideal, trace, device>>

PermNext ==
    \/ Elide
    \/ Preserve
    \/ Place
    \/ EmitOperation
    \/ \E p, q \in DeviceQubits : p # q /\ Move(p, q)
    \/ Report

PermSpec == PermInit /\ [][PermNext]_permVars

-----------------------------------------------------------------------------
(* The layout handed out names, for each qubit of the original circuit, the *)
(* physical qubit that holds what the original circuit leaves on it, and   *)
(* the measurements of the routed circuit read what the original's read,   *)
(* in the same order: whatever SWAPs became part of the permutation and    *)
(* whichever way routing moved the wires (compose_final_layout).           *)
OutputsWhereTold ==
    phase = "Done" =>
        /\ \A q \in Qubits : device.held[final[q]] = ideal.held[q]
        /\ device.read = ideal.read

=============================================================================
