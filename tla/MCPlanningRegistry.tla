-------------------------- MODULE MCPlanningRegistry --------------------------
(* Two threads compile for three devices, of which the registry keeps two. *)
EXTENDS PlanningRegistry, TLC

CONSTANTS t1, t2, k1, k2, k3, k4, a, b, c

(* A device with two plans is heavier than the whole registry may be. *)
MCBaseWeight == [n \in {a, b, c} |-> 1]
MCSymmetry == Permutations({t1, t2}) \cup Permutations({k1, k2, k3, k4})
              \cup Permutations({a, b, c})

=============================================================================
