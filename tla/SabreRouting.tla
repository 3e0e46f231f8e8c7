----------------------------- MODULE SabreRouting -----------------------------
(***************************************************************************)
(* One SABRE routing trial (compile/sabre/routing.rs, dag.rs), and the     *)
(* execution of the circuit it returns.                                    *)
(*                                                                         *)
(* The router builds a dependency graph of each block of operations and    *)
(* executes what is ready.  Pairs that are not adjacent wait in the front  *)
(* layer while it tries SWAPs on the layout; these are emitted when one of *)
(* them enables a pair, and rolled back when the search gets nowhere, upon *)
(* which it forces the closest pair.  Bodies of control flow are routed    *)
(* recursively and then restore the layout they were entered with.         *)
(*                                                                         *)
(* Which SWAP the heuristic scores best is left open; devices are without  *)
(* native costs, so adjacency is all a pair needs.                         *)
(***************************************************************************)
EXTENDS Integers, Sequences, FiniteSets, SequencesExt, FiniteSetsExt

CONSTANTS
    Logical,        \* logical qubits
    Physical,       \* physical qubits
    Edges,          \* sets of two adjacent physical qubits
    Program,        \* block -> sequence of operations
    Main,           \* the block of the circuit itself
    Layouts,        \* initial layouts
    AttemptLimit    \* SabreHeuristicConfig::attempt_limit

ASSUME EdgesArePairs == \A e \in Edges : e \subseteq Physical /\ Cardinality(e) = 2
ASSUME LimitIsNatural == AttemptLimit \in Nat
ASSUME PhysicalIsFinite == IsFiniteSet(Physical)
ASSUME LayoutsPlaceAll ==
    \A l \in Layouts : l \in [Logical -> Physical] /\ \A q, r \in Logical : l[q] = l[r] => q = r

Control == {"if", "switch", "loop"}
Transfers == {"break", "continue"}

(* ControlContext: the transfers a body may hold, from those its parent may. *)
Allowed(kind, outer) ==
    IF kind = "loop" THEN Transfers ELSE IF kind = "switch" THEN outer \cup {"break"} ELSE outer

(* Validated circuits (Circuit::validate), with gates of one or two qubits *)
(* (kind_from_operation refuses others).  A transfer ends its block.  What *)
(* else has no qubits is a barrier or a global phase.                      *)
ASSUME ProgramIsValid ==
    /\ Main \in DOMAIN Program
    /\ \A b \in DOMAIN Program :
          /\ Program[b] \in Seq([kind : {"gate", "store", "delay", "phase"} \cup Control \cup Transfers,
                                 wires : Seq(Logical), bodies : Seq(DOMAIN Program)])
          /\ \A i \in DOMAIN Program[b] : LET op == Program[b][i] IN
                /\ IsInjective(op.wires)
                /\ op.kind = "gate" => Len(op.wires) \in {1, 2}
                /\ op.kind \notin Control => op.bodies = <<>>
                /\ op.kind \in Transfers => op.wires = <<>> /\ i = Len(Program[b])

ASSUME TransfersHaveTargets ==
    \E inside \in [DOMAIN Program -> SUBSET Transfers] :
        /\ inside[Main] = {}
        /\ \A b \in DOMAIN Program : \A i \in DOMAIN Program[b] : LET op == Program[b][i] IN
              /\ op.kind \in Transfers => op.kind \in inside[b]
              /\ \A c \in Range(op.bodies) : inside[c] \subseteq Allowed(op.kind, inside[b])

VARIABLES
    stack,  \* one RoutingState with its TrialOutput per block being routed
    exec,   \* control of the routed circuit, the innermost body last
    held    \* where each logical qubit really is in that execution

vars == <<stack, exec, held>>

(* from_operations: what orders an operation with everything else. *)
IsBarrier(op) == op.kind \in Control \cup Transfers \cup {"store"}

(* kind_from_operation. *)
Class(op) ==
    IF op.kind \in Control THEN "ControlFlow"
    ELSE IF op.kind # "gate" THEN "Synchronize"
    ELSE IF Len(op.wires) = 1 THEN "Unary" ELSE "TwoQ"

(* SabreDag::from_operations, one operation.  Node 0 stands for no node;   *)
(* operations on the same qubits fold into one node, and what waits for    *)
(* nothing and requires nothing is emitted first.                          *)
Parents(dag, op) ==
    LET wires == IF IsBarrier(op) THEN Logical ELSE Range(op.wires)
    IN  ({dag.barrier} \cup {dag.wire[w] : w \in wires}) \ {0}

Foldable(dag, op, p) ==
    /\ Parents(dag, op) = {p}
    /\ Class(op) \in {"Unary", "TwoQ"}
    /\ dag.nodes[p].class = Class(op) /\ dag.nodes[p].wires = op.wires

Folded(node, i) == [node EXCEPT !.ops = Append(@, i)]

Added(dag, op, i) ==
    LET new == Len(dag.nodes) + 1
    IN  IF Parents(dag, op) = {} /\ Class(op) = "Synchronize" /\ ~ IsBarrier(op)
        THEN [dag EXCEPT !.initial = Append(@, i)]
        ELSE IF \E p \in Parents(dag, op) : Foldable(dag, op, p)
        THEN [dag EXCEPT
                !.nodes = [p \in DOMAIN dag.nodes |->
                              IF p \in Parents(dag, op) THEN Folded(dag.nodes[p], i)
                              ELSE dag.nodes[p]]]
        ELSE [dag EXCEPT
                !.nodes = Append(@, [class |-> Class(op), wires |-> op.wires,
                                     ops |-> <<i>>, parents |-> Parents(dag, op)]),
                !.wire = [w \in Logical |-> IF w \in Range(op.wires) THEN new ELSE dag.wire[w]],
                !.barrier = IF IsBarrier(op) THEN new ELSE @]

NoOperations == [initial |-> <<>>, nodes |-> <<>>, barrier |-> 0, wire |-> [w \in Logical |-> 0]]

Dag(ops) ==
    LET dag[i \in 0..Len(ops)] == IF i = 0 THEN NoOperations ELSE Added(dag[i - 1], ops[i], i)
    IN  dag[Len(ops)]

Dags == [b \in DOMAIN Program |-> Dag(Program[b])]

(* Edges of a node are visited from the one added last. *)
Ascending(S) == CHOOSE s \in SetToSeqs(S) : \A i, j \in DOMAIN s : i < j => s[i] < s[j]
Descending(S) == CHOOSE s \in SetToSeqs(S) : \A i, j \in DOMAIN s : i < j => s[i] > s[j]

-----------------------------------------------------------------------------
(* Layouts and layers. *)

Exchange(p, e) == IF p \in e THEN CHOOSE q \in e : q # p ELSE p

Swapped(layout, e) == [l \in DOMAIN layout |-> Exchange(layout[l], e)]

Adjacent(pair) == {pair[1], pair[2]} \in Edges

Near[n \in 0..Cardinality(Physical)] ==
    IF n = 0 THEN {<<p, p>> : p \in Physical}
    ELSE {pair \in Physical \X Physical :
            \E r \in Physical : /\ <<pair[1], r>> \in Near[n - 1]
                                /\ r = pair[2] \/ {r, pair[2]} \in Edges}

(* A trial starts when every interaction is reachable                      *)
(* (validate_reachable_interactions_for_target).                           *)
ASSUME DeviceIsConnected ==
    \A p, q \in Physical : \E n \in 0..Cardinality(Physical) : <<p, q>> \in Near[n]

(* remaining_swaps of a pair, without native costs. *)
Distance(pair) ==
    (CHOOSE n \in 1..Cardinality(Physical) : pair \in Near[n] /\ pair \notin Near[n - 1]) - 1

(* Mutant: the swap moves the layout only. *)
SwapLayoutOnly(f, e) == [f EXCEPT !.layout = Swapped(@, e)]

(* apply_swap: the layout and the placements cached in the front layer. *)
ApplySwap(f, e) ==
    [f EXCEPT !.layout = Swapped(@, e),
              !.front = [n \in DOMAIN f.front |->
                            <<Exchange(f.front[n][1], e), Exchange(f.front[n][2], e)>>]]

(* Front-layer nodes that some placement makes executable. *)
Executable(f) == {n \in DOMAIN f.front : Adjacent(f.front[n])}

Without(front, S) == [n \in DOMAIN front \ S |-> front[n]]

Mapped(f, i) ==
    LET op == Program[f.block][i]
    IN  [kind |-> op.kind, source |-> i, wires |-> op.wires, bodies |-> <<>>,
         at |-> [j \in 1..Len(op.wires) |-> f.layout[op.wires[j]]]]

Swap(e) == [kind |-> "swap", source |-> 0, wires |-> <<>>, bodies |-> <<>>, at |-> SetToSeq(e)]

(* route_trial_with_metadata before its loop. *)
Frame(block, layout) ==
    LET dag == Dags[block]
        f == [block |-> block, layout |-> layout]
    IN  [block |-> block, entry |-> layout, layout |-> layout,
         front |-> [n \in {} |-> <<>>],
         need |-> [n \in 1..Len(dag.nodes) |-> Cardinality(dag.nodes[n].parents)],
         queue |-> Ascending({n \in 1..Len(dag.nodes) : dag.nodes[n].parents = {}}),
         swaps |-> <<>>, tried |-> {}, repeated |-> FALSE, goal |-> 0,
         phase |-> "visit", routed |-> <<>>,
         plan |-> [j \in 1..Len(dag.initial) |-> Mapped(f, dag.initial[j])]]

-----------------------------------------------------------------------------
(* Routing. *)

Init ==
    /\ \E layout \in Layouts : stack = <<Frame(Main, layout)>> /\ held = layout
    /\ exec = <<>>

Top == stack[Len(stack)]
Continue(f) == stack' = [stack EXCEPT ![Len(stack)] = f]
Routing == stack # <<>> /\ UNCHANGED <<exec, held>>

Node(f) == Dags[f.block].nodes[Head(f.queue)]

(* Mutant: a successor is queued at every release, not at the last. *)
ReleasedEagerly(f) ==
    LET successors == {n \in DOMAIN f.need : Head(f.queue) \in Dags[f.block].nodes[n].parents}
    IN  [f EXCEPT !.need = [n \in DOMAIN f.need |-> IF n \in successors THEN 0 ELSE f.need[n]],
                  !.queue = Tail(@) \o Descending({n \in successors : f.need[n] > 0})]

(* The node at the head of the queue is done: its successors wait for one  *)
(* node less, and for none are queued.                                     *)
Released(f) ==
    LET successors == {n \in DOMAIN f.need : Head(f.queue) \in Dags[f.block].nodes[n].parents}
    IN  [f EXCEPT !.need = [n \in DOMAIN f.need |->
                             IF n \in successors THEN f.need[n] - 1 ELSE f.need[n]],
                  !.queue = Tail(@) \o Descending({n \in successors : f.need[n] = 1})]

(* Mutant: the pending swaps are emitted from the last one. *)
FlushedBackwards(f) ==
    [f EXCEPT !.plan = @ \o [i \in 1..Len(f.swaps) |-> Swap(Reverse(f.swaps)[i])],
              !.swaps = <<>>]

(* apply_pending_swaps. *)
Flushed(f) ==
    [f EXCEPT !.plan = @ \o [i \in 1..Len(f.swaps) |-> Swap(f.swaps[i])], !.swaps = <<>>]

Placement(f) == <<f.layout[Node(f).wires[1]], f.layout[Node(f).wires[2]]>>

(* update_route: the pair is not adjacent and waits in the front layer. *)
Wait ==
    /\ Routing
    /\ Top.phase = "visit" /\ Top.queue # <<>>
    /\ Node(Top).class = "TwoQ"
    /\ ~ Adjacent(Placement(Top))
    /\ Continue([Top EXCEPT
            !.queue = Tail(@),
            !.front = [n \in DOMAIN Top.front \cup {Head(Top.queue)} |->
                          IF n = Head(Top.queue) THEN Placement(Top) ELSE Top.front[n]]])

(* update_route: the operations of the node are emitted. *)
Emit ==
    /\ Routing
    /\ Top.phase = "visit" /\ Top.queue # <<>>
    /\ Node(Top).class # "ControlFlow"
    /\ Node(Top).class = "TwoQ" => Adjacent(Placement(Top))
    /\ LET f == Flushed(Top)
           ops == Node(Top).ops
       IN  Continue(Released([f EXCEPT
                !.plan = @ \o [j \in 1..Len(ops) |-> Mapped(f, ops[j])]]))

Flow(f) == Program[f.block][Head(Node(f).ops)]

(* route_control_flow_node: the next body, from the layout of the parent. *)
EnterBody ==
    /\ Routing
    /\ Top.phase = "visit" /\ Top.queue # <<>>
    /\ Node(Top).class = "ControlFlow"
    /\ Len(Top.routed) < Len(Flow(Top).bodies)
    /\ stack' = Append([stack EXCEPT ![Len(stack)] = Flushed(Top)],
                       Frame(Flow(Top).bodies[Len(Top.routed) + 1], Top.layout))

UsedQubits(bodies) ==
    UNION {UNION {Range(bodies[b][i].at) : i \in 1..Len(bodies[b])} : b \in 1..Len(bodies)}

(* route_control_flow_node: all bodies are routed. *)
CloseFlow ==
    /\ Routing
    /\ Top.phase = "visit" /\ Top.queue # <<>>
    /\ Node(Top).class = "ControlFlow"
    /\ Len(Top.routed) = Len(Flow(Top).bodies)
    /\ LET op == [Mapped(Top, Head(Node(Top).ops)) EXCEPT
                    !.bodies = Top.routed, !.at = SetToSeq(UsedQubits(Top.routed))]
       IN  Continue(Released([Top EXCEPT !.plan = Append(@, op), !.routed = <<>>]))

(* Nothing is ready: a new search begins. *)
Seek ==
    /\ Routing
    /\ Top.phase = "visit" /\ Top.queue = <<>>
    /\ DOMAIN Top.front # {}
    /\ Continue([Top EXCEPT !.phase = "search", !.swaps = <<>>,
                            !.tried = {Top.layout}, !.repeated = FALSE])

(* choose_best_swap: edges at a waiting pair, but not the last one again. *)
Candidates(f) ==
    LET touching == {e \in Edges : \E n \in DOMAIN f.front : e \cap Range(f.front[n]) # {}}
    IN  IF f.swaps # <<>> /\ Cardinality(touching) > 1
        THEN touching \ {f.swaps[Len(f.swaps)]} ELSE touching

(* The routable nodes leave the front layer and are visited, in the order  *)
(* the layer has them.                                                     *)
Enabled(f, S) ==
    \E order \in SetToSeqs(S) :
        Continue([f EXCEPT !.phase = "visit", !.queue = order, !.front = Without(@, S),
                           !.goal = 0, !.tried = {}, !.repeated = FALSE])

(* One speculative SWAP.  Seen layouts are compared by their hashes, the    *)
(* last WINDOW = 32 of them: AttemptLimit stays below that.                *)
TrySwap ==
    /\ Routing
    /\ Top.phase = "search"
    /\ ~ Top.repeated /\ Len(Top.swaps) < AttemptLimit
    /\ \E e \in Candidates(Top) :
        LET f == [ApplySwap(Top, e) EXCEPT !.swaps = Append(@, e)]
            routable == {n \in Executable(f) : Range(f.front[n]) \cap e # {}}
        IN  IF routable # {} THEN Enabled(f, routable)
            ELSE \E collision \in BOOLEAN :
                    Continue([f EXCEPT !.tried = @ \cup {f.layout},
                                       !.repeated = collision \/ f.layout \in f.tried])

(* The SWAPs of the search are undone from the last one. *)
Undone(f) ==
    LET n == Len(f.swaps)
        back[i \in 0..n] == IF i = 0 THEN f ELSE ApplySwap(back[i - 1], f.swaps[n + 1 - i])
    IN  back[n]

(* Mutant: the search starts over instead of a forced route. *)
SearchAgain ==
    /\ Routing
    /\ Top.phase = "search"
    /\ Top.repeated \/ Len(Top.swaps) >= AttemptLimit
    /\ LET back == Undone(Top)
       IN  Continue([back EXCEPT !.swaps = <<>>, !.tried = {back.layout}, !.repeated = FALSE])

(* The search is undone; then force_enable_closest_node. *)
GiveUp ==
    /\ Routing
    /\ Top.phase = "search"
    /\ Top.repeated \/ Len(Top.swaps) >= AttemptLimit
    /\ LET back == Undone(Top)
       IN  \E n \in DOMAIN back.front :
            /\ \A m \in DOMAIN back.front :
                  Distance(back.front[n]) <= Distance(back.front[m])
            /\ Continue([back EXCEPT !.phase = "force", !.goal = n, !.swaps = <<>>,
                                     !.tried = {}, !.repeated = FALSE])

(* One SWAP that brings the closest pair nearer. *)
ForceSwap ==
    LET pair == Top.front[Top.goal]
        near(e) == <<Exchange(pair[1], e), Exchange(pair[2], e)>>
    IN  /\ Routing
        /\ Top.phase = "force"
        /\ Distance(pair) > 0
        /\ \E e \in {d \in Edges : d \cap Range(pair) # {}} :
            /\ Distance(near(e)) = Distance(pair) - 1
            /\ Continue([ApplySwap(Top, e) EXCEPT !.swaps = Append(@, e)])

Forced ==
    /\ Routing
    /\ Top.phase = "force"
    /\ Distance(Top.front[Top.goal]) = 0
    /\ Enabled(Top, Executable(Top))

(* The layout behind a sequence of SWAPs. *)
Moved(layout, swaps) ==
    LET at[i \in 0..Len(swaps)] == IF i = 0 THEN layout ELSE Swapped(at[i - 1], swaps[i])
    IN  at[Len(swaps)]

(* restore_layout_swaps, as if the token swapper found a shortest one.     *)
(* Any sequence that restores the layout is accepted.                      *)
Restorations(f) ==
    LET of(n) == {s \in [1..n -> Edges] : Moved(f.layout, s) = f.entry}
        bound == Cardinality(Physical) * Cardinality(Physical)
        least == CHOOSE n \in 0..bound : of(n) # {} /\ \A m \in 0..(n - 1) : of(m) = {}
    IN  {s \in of(least) : least \in 0..bound}

Routed(f) == f.phase = "visit" /\ f.queue = <<>> /\ DOMAIN f.front = {}

(* Mutant: the layout is restored after the control transfer. *)
ClosedLate(f, s) == f.plan \o [i \in 1..Len(s) |-> Swap(s[i])]

(* The epilogue precedes a control transfer that ends the plan. *)
Closed(f, s) ==
    LET epilogue == [i \in 1..Len(s) |-> Swap(s[i])]
        n == Len(f.plan)
    IN  IF n > 0 /\ f.plan[n].kind \in Transfers
        THEN SubSeq(f.plan, 1, n - 1) \o epilogue \o <<f.plan[n]>>
        ELSE f.plan \o epilogue

(* route_control_flow_body, once its trial is over. *)
LeaveBody ==
    /\ Routing
    /\ Len(stack) > 1
    /\ Routed(Top)
    /\ \E s \in Restorations(Top) :
        stack' = [[n \in 1..(Len(stack) - 1) |-> stack[n]]
                    EXCEPT ![Len(stack) - 1].routed = Append(@, Closed(Top, s))]

(* The trial of the circuit is over, and its result is run. *)
Finish ==
    /\ Len(stack) = 1
    /\ Routed(Top)
    /\ exec' = <<[plan |-> Top.plan, next |-> 1, kind |-> "main", entry |-> Top.entry]>>
    /\ held' = Top.entry
    /\ stack' = <<>>

-----------------------------------------------------------------------------
(* Running the routed circuit, with every outcome of its conditions. *)

Inner == exec[Len(exec)]
Ended == Inner.next > Len(Inner.plan)
Operation == Inner.plan[Inner.next]
Running == exec # <<>> /\ UNCHANGED stack

(* Control passes the operation of the innermost remaining body. *)
Advanced(frames) == [frames EXCEPT ![Len(frames)].next = @ + 1]

Run ==
    /\ Running /\ ~ Ended
    /\ Operation.kind \notin Control \cup Transfers
    /\ held' = IF Operation.kind = "swap" THEN Swapped(held, Range(Operation.at)) ELSE held
    /\ exec' = Advanced(exec)

(* One of the bodies, or none: no case matches, the condition is false. *)
Branch ==
    /\ Running /\ ~ Ended
    /\ Operation.kind \in Control
    /\ \/ exec' = Advanced(exec)
       \/ \E b \in 1..Len(Operation.bodies) :
            exec' = Append(Advanced(exec),
                           [plan |-> Operation.bodies[b], next |-> 1,
                            kind |-> Operation.kind, entry |-> held])
    /\ UNCHANGED held

Return ==
    /\ Running /\ Ended /\ Len(exec) > 1
    /\ \/ exec' = Front(exec)
       \/ Inner.kind = "loop" /\ exec' = [exec EXCEPT ![Len(exec)].next = 1]
    /\ UNCHANGED held

(* break leaves the nearest loop or switch, continue ends an iteration. *)
Jump ==
    /\ Running /\ ~ Ended
    /\ Operation.kind \in Transfers
    /\ LET leaves == IF Operation.kind = "break" THEN {"loop", "switch"} ELSE {"loop"}
           n == Max({i \in 1..Len(exec) : exec[i].kind \in leaves})
       IN  exec' = IF Operation.kind = "break" THEN SubSeq(exec, 1, n - 1)
                   ELSE [SubSeq(exec, 1, n) EXCEPT ![n].next = Len(exec[n].plan) + 1]
    /\ UNCHANGED held

Route ==
    \/ Wait \/ Emit \/ EnterBody \/ CloseFlow \/ Seek \/ TrySwap \/ GiveUp
    \/ ForceSwap \/ Forced \/ LeaveBody \/ Finish

Next == Route \/ Run \/ Branch \/ Return \/ Jump

Spec == Init /\ [][Next]_vars

(* The trial is one thread's loop, which takes its next step. *)
FairSpec == Spec /\ WF_vars(Route)

-----------------------------------------------------------------------------
(* A waiting pair is cached with the placement its qubits have.            *)
TypeOK ==
    /\ \A n \in 1..Len(stack) :
        LET f == stack[n] IN
        /\ \A l, m \in Logical : l # m => f.layout[l] # f.layout[m]
        /\ Len(f.swaps) <= AttemptLimit + Cardinality(Physical)
        /\ \A m \in DOMAIN f.front :
              /\ f.need[m] = 0
              /\ \A j \in 1..2 : f.front[m][j] = f.layout[Dags[f.block].nodes[m].wires[j]]
        /\ f.swaps # <<>> => f.phase # "visit" \/ f.queue # <<>>
    /\ held \in [Logical -> Physical]

(* A global phase, which has no qubits, may move past what follows it.     *)
Precedes(op, later) ==
    \/ IsBarrier(op)
    \/ IsBarrier(later) /\ op.wires # <<>>
    \/ Range(op.wires) \cap Range(later.wires) # {}

(* A routed block holds each of its operations once, and those that share  *)
(* a qubit or that classical effects and control flow separate in the      *)
(* order of the source, although the graph folds nodes, releases them in   *)
(* its own order and pairs wait for SWAPs (from_operations, update_route). *)
RoutedOnceInOrder ==
    \A n \in 1..Len(stack) : Routed(stack[n]) =>
        LET ops == Program[stack[n].block]
            plan == stack[n].plan
            of(i) == {k \in 1..Len(plan) : plan[k].kind # "swap" /\ plan[k].source = i}
        IN  /\ \A k \in 1..Len(plan) : plan[k].kind = "swap" \/ plan[k].source \in 1..Len(ops)
            /\ \A i \in 1..Len(ops) : Cardinality(of(i)) = 1
            /\ \A i, j \in 1..Len(ops) :
                  i < j /\ Precedes(ops[i], ops[j]) =>
                      \A k \in of(i), m \in of(j) : k < m

(* However the circuit branches, when it performs a gate the logical       *)
(* qubits the gate was meant for are where it acts, next to each other if  *)
(* there are two; SWAPs act on neighbours (speculation, rollback, forced   *)
(* routes, epilogues of bodies).                                           *)
OperandsInPlace ==
    exec # <<>> /\ ~ Ended =>
        LET op == Operation IN
        /\ \A j \in 1..Len(op.wires) : op.kind \notin Control => op.at[j] = held[op.wires[j]]
        /\ Len(op.at) = 2 /\ op.kind \in {"gate", "swap"} => Adjacent(op.at)

(* "Whichever branch or iteration executes, the body exits with the same   *)
(* logical-to-physical mapping it entered with" (route_control_flow_body): *)
(* by its end, its next iteration, a break or a continue.                  *)
BodiesAreNeutral ==
    [][\A n \in 2..Len(exec) :
         n > Len(exec') \/ exec'[n].next < exec[n].next => held' = exec[n].entry]_vars

(* The search may try and give up as it likes: every trial ends, as each   *)
(* round of its loop routes a pair (the forced route of the closest one).  *)
RoutingEnds == <>(exec # <<>>)

=============================================================================
