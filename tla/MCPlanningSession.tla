------------------------- MODULE MCPlanningSession -------------------------
(* Three threads and three roots, one of which depends on another; a batch
   of the two leaves no room for any other, one of all three is not kept. *)
EXTENDS PlanningSession

CONSTANTS t1, t2, t3

MCRoots == {"a", "b", "c"}
MCDepends == [r \in MCRoots |-> IF r = "c" THEN {"a"} ELSE {}]
MCRequests == {{"b"}, {"c"}, {"a", "b"}, {"b", "c"}}
MCRootBytes == [r \in MCRoots |-> IF r = "c" THEN 2 ELSE 1]

=============================================================================
