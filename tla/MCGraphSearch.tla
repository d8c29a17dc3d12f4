---------------------------- MODULE MCGraphSearch ----------------------------
(***************************************************************************)
(* Every graph of three nodes with at most one edge, of either type, from  *)
(* one node to another; every graph of four nodes with up to four edges of *)
(* one type; and one with parallel edges and a loop on a node.             *)
(***************************************************************************)
EXTENDS GraphSearch

Pairs(n) == {p \in (1 .. n) \X (1 .. n) : p[1] # p[2]}

Edges(f) == {<<p[1], p[2], f[p]>> : p \in {q \in DOMAIN f : f[q] # "none"}}

Small == {Edges(f) : f \in [Pairs(3) -> {"none", "call", "data"}]}

Sparse == {E \in {P \X {"call"} : P \in SUBSET Pairs(4)} : Cardinality(E) <= 4}

MCGraphs ==
    Small
    \cup {{<<e[1][1], e[1][2], e[2]>> : e \in E} : E \in Sparse}
    \cup {{<<1, 2, "call">>, <<1, 2, "data">>, <<2, 2, "call">>, <<2, 3, "data">>,
           <<2, 3, "call">>, <<3, 1, "call">>}}
=============================================================================
