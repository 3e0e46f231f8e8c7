--------------------------- MODULE MCDevicePlanner ---------------------------
(* An excerpt of the built-in library (SWAP, CX and CZ over H), one rule of  *)
(* a kind the planner skips, and the gates P, W and V, whose plans of W have *)
(* different profiles that become equal inside P.                           *)
EXTENDS DevicePlanner

On(g, q) == [gate |-> g, qargs |-> q]
At(g, r) == [gate |-> g, roles |-> r]
Rule(n, k, g, t) == [name |-> n, kind |-> k, gate |-> g, generic |-> TRUE, target |-> t]

MCStates == <<On("H", <<0>>), On("H", <<1>>),
              On("CX", <<0, 1>>), On("CX", <<1, 0>>), On("CZ", <<0, 1>>), On("CZ", <<1, 0>>),
              On("SWAP", <<0, 1>>), On("SWAP", <<1, 0>>),
              On("P", <<0, 1>>), On("W", <<0, 1>>), On("V", <<0, 1>>)>>
MCNatives == {On("H", <<0>>), On("H", <<1>>),
              On("CX", <<0, 1>>), On("CX", <<1, 0>>), On("CZ", <<0, 1>>)}
MCRules == {
    Rule(20, "Decompose", "CX", <<At("H", <<2>>), At("CZ", <<1, 2>>), At("H", <<2>>)>>),
    Rule(22, "HardwareNative", "CZ", <<At("H", <<2>>), At("CX", <<1, 2>>), At("H", <<2>>)>>),
    Rule(24, "Decompose", "SWAP", <<At("CX", <<1, 2>>), At("CX", <<2, 1>>), At("CX", <<1, 2>>)>>),
    Rule(25, "Simplify", "SWAP", <<At("CZ", <<1, 2>>)>>),
    [Rule(26, "Decompose", "SWAP", <<At("CX", <<1, 2>>)>>) EXCEPT !.generic = FALSE],
    Rule(30, "Decompose", "P", <<At("W", <<1, 2>>), At("H", <<2>>), At("H", <<2>>),
                                 At("GPhase", <<>>), At("CZ", <<1, 2>>)>>),
    Rule(32, "Decompose", "W", <<At("CZ", <<1, 2>>), At("H", <<1>>),
                                 At("CZ", <<1, 2>>), At("H", <<1>>)>>),
    Rule(34, "Decompose", "W", <<At("V", <<1, 2>>)>>),
    Rule(36, "Decompose", "V", <<At("CZ", <<1, 2>>), At("CZ", <<1, 2>>),
                                 At("H", <<1>>), At("H", <<2>>)>>)}
MCReversible == [g \in {"CX"} |-> [name |-> 2, dress |-> "H"]]
MCSymmetric == [g \in {"CZ", "SWAP"} |-> IF g = "CZ" THEN 4 ELSE 6]
MCRootBatches == {{On("SWAP", <<0, 1>>)}, {On("CX", <<1, 0>>), On("SWAP", <<1, 0>>)},
               {On("P", <<0, 1>>)}, {On("V", <<0, 1>>), On("P", <<0, 1>>)}}
=============================================================================
