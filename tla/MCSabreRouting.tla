---------------------------- MODULE MCSabreRouting ----------------------------
EXTENDS SabreRouting

Line == {{1, 2}, {2, 3}, {3, 4}, {4, 5}}

Op(kind, wires) == [kind |-> kind, wires |-> wires, bodies |-> <<>>]
Gate(wires) == Op("gate", wires)
Block(kind, wires, bodies) == [kind |-> kind, wires |-> wires, bodies |-> bodies]

(* Pairs near and far, and the order reversed. *)
Placed == {[a |-> 1, b |-> 2, c |-> 4, d |-> 5], [a |-> 5, b |-> 3, c |-> 2, d |-> 1]}

(* Two pairs wait at a time, pairs fold, a loop whose body ends in a      *)
(* transfer, and two branches of which one is left early.                 *)
Structured ==
    [main |-> <<Op("delay", <<"c">>), Gate(<<"a">>), Gate(<<"a", "c">>), Gate(<<"a", "c">>),
                Gate(<<"b", "d">>), Block("loop", <<"a", "b", "c">>, <<"body">>),
                Op("phase", <<>>), Block("switch", <<"a", "b">>, <<"left", "right">>),
                Gate(<<"b", "a">>)>>,
     body |-> <<Gate(<<"a", "b">>), Op("store", <<>>),
                Gate(<<"a", "c">>), Op("continue", <<>>)>>,
     left |-> <<Gate(<<"a", "d">>), Op("break", <<>>)>>,
     right |-> <<Gate(<<"b">>)>>]

(* A loop that is left from a branch after its layout has changed. *)
Nested ==
    [main |-> <<Block("loop", <<"a", "c">>, <<"body">>), Gate(<<"a", "b">>)>>,
     body |-> <<Gate(<<"a", "c">>), Block("if", <<"a">>, <<"then">>)>>,
     then |-> <<Gate(<<"a">>), Op("break", <<>>)>>]

(* A loop left after a global phase that follows a store: the phase is no *)
(* ancestor of the break.  In place of Nested it refutes BodiesAreNeutral. *)
Phased ==
    [main |-> <<Block("loop", <<"a", "c">>, <<"body">>), Gate(<<"a", "b">>)>>,
     body |-> <<Gate(<<"a", "c">>), Op("store", <<>>), Op("phase", <<>>), Op("break", <<>>)>>]
=============================================================================
