------------------------- MODULE MCMiniZincPrinter -------------------------
(***************************************************************************)
(* Graphs to export: four nodes, of which the last need not be in the node *)
(* set.  One is always the entry of a function; the others take every      *)
(* combination of a few types that leaves gaps in every collation.  The    *)
(* printer looks at the type of an edge and at its ends separately, so the *)
(* two are combined freely.  A node's place in the order of addresses is   *)
(* its number, which loses nothing because any node may have any type.     *)
(***************************************************************************)
EXTENDS MiniZincPrinter

NodeTypes == {"INST_FUNCALL", "VAR_STATICALLOCGLOBALSCOPE",
              "VAR_STATICALLOCMODULESCOPE", "FUNC_ENTRY", "PARAM_FORMALIN", "PARAM_ACTUALOUT",
              "ANNO_VAR", "ANNO_GLOBAL"}
EdgeTypes == {"CONTROLDEP_CALLINV", "CONTROLDEP_ENTRY", "DATA_ALIAS", "DATA_ARGPASS_IN",
              "PARAMETER_OUT", "ANNO_GLOBAL"}

MCNodes == 1 .. 4
MCEdges == 1 .. 2

EntryOf(t) == CHOOSE n \in DOMAIN t : t[n] = "FUNC_ENTRY"

\* A graph from the types of its nodes, the last member, and its edges.
Graph(t, last, ends, types) ==
    [order |-> [i \in 1 .. last |-> i],
     out   |-> [n \in MCNodes |-> SelectSeq(<<1, 2>>, LAMBDA e : ends[e][1] = n)],
     dst   |-> [e \in MCEdges |-> ends[e][2]],
     ntype |-> t,
     etype |-> types,
     fn    |-> [n \in MCNodes |-> CASE t[n] = "FUNC_ENTRY" -> n
                                    [] t[n] \in Globals -> None
                                    [] OTHER -> EntryOf(t)],
     anno  |-> [n \in MCNodes |-> IF n > 2 THEN "LABEL" ELSE None],
     param |-> [n \in MCNodes |-> CASE t[n] = "PARAM_FORMALIN" -> 0
                                    [] t[n] = "PARAM_ACTUALOUT" /\ n > 1 /\ EntryOf(t) > 1 -> 1
                                    [] OTHER -> -1],
     inst  |-> [n \in MCNodes |-> IF t[n] \in Insts THEN n ELSE -1],
     arity |-> [n \in MCNodes |-> IF t[n] = "FUNC_ENTRY" THEN n ELSE 0],
     unused |-> {1},
     named |-> IF last = 4 THEN 1 .. 3 ELSE {}]

\* Every choice of types, few edges.
TypeGraphs ==
    {Graph(<<t[1], "FUNC_ENTRY", t[2], t[3]>>, 4, <<<<1, 2>>, <<2, 3>>>>,
           <<"CONTROLDEP_ENTRY", "DATA_ARGPASS_IN">>) : t \in [1 .. 3 -> NodeTypes]}

\* Pairs of different edges, few types.  The last node is outside the node set.
Ends == {<<1, 2>>, <<1, 3>>, <<2, 3>>, <<3, 1>>, <<3, 4>>, <<4, 1>>}

EdgeGraphs ==
    {Graph(<<"FUNC_ENTRY", "ANNO_VAR", "INST_FUNCALL", "PARAM_ACTUALOUT">>, 3,
           <<x[1][1], x[2][1]>>, <<x[1][2], x[2][2]>>) :
        x \in {y \in (Ends \X EdgeTypes) \X (Ends \X EdgeTypes) : y[1] # y[2]}}

MCGraphs == TypeGraphs \cup EdgeGraphs
=============================================================================
