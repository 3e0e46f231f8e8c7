--------------------------- MODULE MCRewriteSession ---------------------------
EXTENDS RewriteSession, TLC

(* Qubits are interchangeable. *)
MCSymmetry == Permutations(Qubits)

MCRules ==
    {[kind |-> "Cancel", source |-> <<"x", "x">>, target |-> <<>>],
     [kind |-> "Simplify", source |-> <<"z">>, target |-> <<"x">>],
     [kind |-> "Decompose", source |-> <<"z">>, target |-> <<"x">>]}

Config(mode, kinds, window, target) ==
    [mode |-> mode, kinds |-> kinds, window |-> window, pattern |-> 2, target |-> target]

MCConfigs ==
    {Config("Logical", {"Cancel", "Simplify"}, 2, None),
     Config("Logical", {"Cancel", "Simplify"}, 1, {"x"}),
     Config("Lowering", {"Cancel", "Decompose"}, 1, None)}

(* Where a proof is carried over an edit, scripts of two replacements, also *)
(* adjacent ones, of two operations each are few enough to be tried on      *)
(* circuits of one qubit.  These steps are steps of the same specification  *)
(* with larger bounds.                                                      *)
Larger(q) == INSTANCE RewriteSession WITH
    Qubits <- {q}, Unkeyed <- {}, MaxEdits <- 2, MaxInserted <- 2

OnlyOn(q) == \A i \in DOMAIN current : current[i].qubit = q

LargerPass(q) ==
    /\ Eligible(current) /\ OnlyOn(q)
    /\ cert # None /\ cert.revision = revision /\ revision + 1 < Revisions
    /\ Larger(q)!Pass

MCNext == Next \/ \E q \in Qubits : LargerPass(q)

MCSpec == Init /\ [][MCNext]_vars

=============================================================================
