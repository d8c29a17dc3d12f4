----------------------------- MODULE MCParamTree -----------------------------
(***************************************************************************)
(* A list node whose second field points to the type itself, with a        *)
(* typedef of the structure, a pointer to a pointer, a void pointer and a  *)
(* typedef of the pointer as further types of the parameter; and every way *)
(* in which a few values load from each other or index into each other.    *)
(***************************************************************************)
EXTENDS ParamTree

MCTypes == {"int", "node", "data", "next", "node_t", "node*", "node**", "void*", "node_p"}
MCVals  == {"p", "q", "x", "y"}

Input(root, returned, loads, geps) ==
    [returned |-> returned,
     tag  |-> [t \in MCTypes |-> CASE t = "int" -> "base"
                                   [] t = "node" -> "struct"
                                   [] t \in {"data", "next"} -> "member"
                                   [] t \in {"node_t", "node_p"} -> "typedef"
                                   [] OTHER -> "pointer"],
     base |-> [t \in MCTypes |-> CASE t = "data"  -> "int"
                                   [] t = "next"  -> "node*"
                                   [] t \in {"node_t", "node*"} -> "node"
                                   [] t \in {"node**", "node_p"} -> "node*"
                                   [] OTHER -> Null],
     elems  |-> [t \in MCTypes |-> IF t = "node" THEN <<"data", "next">> ELSE <<>>],
     offset |-> [t \in MCTypes |-> IF t = "next" THEN 64 ELSE 0],
     root |-> root, formal |-> {"p"}, actual |-> {"q"},
     loads |-> loads, geps |-> geps,
     at |-> [v \in MCVals |-> IF v = "x" THEN 0 ELSE 64]]

Roots   == {"node", "node_t", "node*", "node**", "void*", "node_p"}
Returns == {"int", "node*", Null}
Loads   == SUBSET {<<"p", "q">>, <<"y", "q">>, <<"q", "y">>}
GEPs    == SUBSET {<<"p", "x">>, <<"p", "y">>, <<"q", "y">>, <<"q", "x">>}

MCInputs ==
    {Input(i[1], FALSE, i[2], i[3]) : i \in Roots \X Loads \X GEPs}
    \cup {Input(i[1], TRUE, i[2], i[3]) : i \in Returns \X Loads \X GEPs}
=============================================================================
