------------------------ MODULE MCVirtualPermutation ------------------------
EXTENDS VirtualPermutation

Op(g, q, l) == [gate |-> g, qubits |-> q, label |-> l, body |-> q]
MCQubits == {"a", "b", "c"}
MCPairs == {<<"a", "b">>, <<"b", "c">>, <<"c", "a">>}

MCOperations ==
    {Op("SWAP", q, FALSE) : q \in MCPairs}
    \cup {Op("SWAP", <<"a", "b">>, TRUE), Op("CX", <<"a", "b">>, FALSE),
          Op("CX", <<"c", "b">>, FALSE), Op("H", <<"b">>, FALSE), Op("Measure", <<"a">>, FALSE),
          Op("Flow", <<"a", "b">>, FALSE)}
=============================================================================
