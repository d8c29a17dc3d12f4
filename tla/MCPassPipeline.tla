--------------------------- MODULE MCPassPipeline ---------------------------
(***************************************************************************)
(* A program of one function: its entry, three instructions, of which note *)
(* annotates var, and a parameter tree of two nodes.                       *)
(***************************************************************************)
EXTENDS PassPipeline, FiniteSets

CONSTANTS entry, var, field, note, root, below

MCRequests == UNION {[1 .. n -> Passes] : n \in 1 .. 5}

MCTreeEdges == {<<root, below, "PARAMETER_FIELD">>}
MCDataEdges == {<<var, note, "DATA_DEF_USE">>, <<var, field, "DATA_ALIAS">>,
                <<var, field, "DATA_DEF_USE">>}
MCControlEdges == {<<entry, i, "CONTROLDEP_ENTRY">> : i \in {var, field, note}}
                  \cup {<<field, note, "CONTROLDEP_BR">>}
MCLinkEdges == {<<entry, root, "PARAMETER_IN">>, <<root, var, "PARAMETER_IN">>}
MCAddressed == {<<var, root>>}
=============================================================================
