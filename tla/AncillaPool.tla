----------------------------- MODULE AncillaPool -----------------------------
(***************************************************************************)
(* What an ancilla manager promises its callers, without previews, plans,  *)
(* revisions or indexes: a pool of qubits whose grants never overlap, are  *)
(* never confused with an earlier grant, are clean only when the pool made *)
(* the qubits itself, and stop growing the circuit once layout is done.    *)
(***************************************************************************)

CONSTANTS
    Qubit,         \* all qubit identifiers
    GrantId,       \* identities of grants
    Affordable     \* the sets of qubits the pool may ever have made

VARIABLES
    stage,      \* "Absent", "Growing" or "Frozen"
    borrowed,   \* qubits that belong to the circuit's owner
    made,       \* qubits the pool made
    grants,     \* outstanding grants: [id, clean, qubits]
    returned    \* identities of the grants that were returned

vars == <<stage, borrowed, made, grants, returned>>

Grants == [id : GrantId, clean : BOOLEAN, qubits : SUBSET Qubit]

Init ==
    /\ stage = "Absent"
    /\ borrowed = {} /\ made = {} /\ grants = {} /\ returned = {}

Open ==
    /\ stage = "Absent" /\ stage' = "Growing"
    /\ borrowed' \in SUBSET Qubit
    /\ UNCHANGED <<made, grants, returned>>

\* A grant takes qubits no outstanding grant holds, under an identity never
\* used before; it may make qubits, all of them part of the grant.
Grant(g) ==
    /\ grants' = grants \cup {g}
    /\ stage # "Absent"
    /\ g.id \notin returned \cup {h.id : h \in grants}
    /\ \A h \in grants : h.qubits \cap g.qubits = {}
    /\ made \subseteq made'
    /\ made' \ made \subseteq g.qubits \ borrowed
    /\ made' # made => stage = "Growing"
    /\ made' \in Affordable
    /\ g.qubits \subseteq IF g.clean THEN made' ELSE made' \cup borrowed
    /\ UNCHANGED <<stage, borrowed, returned>>

Return(g) ==
    /\ grants' = grants \ {g}
    /\ returned' = returned \cup {g.id}
    /\ UNCHANGED <<stage, borrowed, made>>

Freeze ==
    /\ stage = "Growing" /\ stage' = "Frozen"
    /\ grants = {}
    /\ UNCHANGED <<borrowed, made, grants, returned>>

Next ==
    \/ Open
    \/ \E g \in Grants : Grant(g)
    \/ \E g \in grants : Return(g)
    \/ Freeze

Spec == Init /\ [][Next]_vars
=============================================================================
