------------------------- MODULE MCResourceManager -------------------------
(* Two managers of one circuit; identifiers, counters, policy and capacity
   all end soon enough for every refusal to be met. *)
EXTENDS ResourceManager, TLC

CONSTANTS m1, m2

MCInputQubits == {0}
\* Identifier 3 leaves none after it; what one manager adds collides with what
\* the other would add.
MCOwnerQubits == {3}
MCExclusions == {{}, {0}}
MCSymmetry == Permutations({m1, m2})

=============================================================================
