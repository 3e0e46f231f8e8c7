--------------------------- MODULE MCLazyPairCache ---------------------------
(* Three trials ask for two bounds; neither cache has room for both. *)
EXTENDS LazyPairCache

MCBound == [k \in {"j", "k"} |-> IF k = "j" THEN "three" ELSE "unreachable"]

=============================================================================
