--------------------------- MODULE MiniZincPrinter ---------------------------
(***************************************************************************)
(* The export of a finished program graph (zincPrinter.cpp).  The printer  *)
(* groups the nodes and the edges by type, numbers them group by group in  *)
(* the order of the MiniZinc types, and writes ranges of numbers and       *)
(* arrays indexed by them: a reader of the files has nothing but numbers   *)
(* to tell nodes and edges apart.                                          *)
(*                                                                         *)
(* Sequences start at 1 here and at 0 in the code; ranges and ids keep the *)
(* code's numbers, and the +1 of the export is written out.                *)
(***************************************************************************)
EXTENDS Integers, FiniteSets, Sequences, Functions

CONSTANTS
    Node, Edge,  \* identifiers, counted up from 1 as they are made
    None,        \* no function, no annotation, no pointer
    EdgeCount,   \* an edge has the identifier EdgeCount - e in the code
    Graphs       \* the graphs to export

ASSUME NamesAssumption ==
    Node \subseteq Nat \ {0} /\ Edge \subseteq Nat \ {0} /\ None \notin Node

\* The enumerations MznNodeType and MznEdgeType.  A leaf stands for the node
\* or edge type that maps to it.
MznNodeType == <<"INST_FUNCALL", "INST_RET", "INST_BR", "INST_OTHER", "Inst",
    "VAR_STATICALLOCGLOBALSCOPE", "VAR_STATICALLOCMODULESCOPE",
    "VAR_STATICALLOCFUNCTIONSCOPE", "VAR_OTHER", "VarNode", "FUNC_ENTRY",
    "PARAM_FORMALIN", "PARAM_FORMALOUT", "PARAM_ACTUALIN", "PARAM_ACTUALOUT",
    "Param", "ANNO_VAR", "ANNO_GLOBAL", "ANNO_OTHER", "Annotation", "PDGNode">>

MznEdgeType == <<"CONTROLDEP_CALLINV", "IND_CALL", "CONTROLDEP_CALLRET",
    "CONTROLDEP_ENTRY", "CONTROLDEP_BR", "CONTROLDEP_OTHER", "ControlDep",
    "DATA_DEF_USE", "DATA_GLOBAL_DEF_USE", "DATA_RAW", "DATA_RET",
    "DATA_INDIRECT_RET", "DATA_ALIAS", "DATA_ARGPASS_IN", "DATA_ARGPASS_OUT",
    "DATA_ARGPASS_INDIRECT_IN", "DATA_ARGPASS_INDIRECT_OUT", "DATA_CALLEE",
    "DataDepEdge", "PARAMETER_IN", "PARAMETER_OUT", "PARAMETER_FIELD",
    "Parameter_Indirect_In", "Parameter", "ANNO_GLOBAL", "ANNO_VAR",
    "ANNO_OTHER", "Anno", "PDGEdge">>

\* The elements of a sequence that are in S, in their order.
Rank(s, S, i) == Cardinality({j \in 1 .. i : s[j] \in S})
Kept(s, S) ==
    [k \in 1 .. Rank(s, S, Len(s)) |->
        s[CHOOSE i \in DOMAIN s : s[i] \in S /\ Rank(s, S, i) = k]]

Place(enum, t) == CHOOSE i \in DOMAIN enum : enum[i] = t

\* From which to which leaf a collated type reaches.
NodeCollations ==
    [Inst       |-> <<"INST_FUNCALL", "INST_OTHER">>,
     VarNode    |-> <<"VAR_STATICALLOCGLOBALSCOPE", "VAR_OTHER">>,
     Param      |-> <<"PARAM_FORMALIN", "PARAM_ACTUALOUT">>,
     Annotation |-> <<"ANNO_VAR", "ANNO_OTHER">>,
     PDGNode    |-> <<"INST_FUNCALL", "Annotation">>]

\* Mutant: data dependences reach to the last type before their own.
EdgeCollationsToCallee ==
    [ControlDep  |-> <<"CONTROLDEP_CALLINV", "CONTROLDEP_OTHER">>,
     DataDepEdge |-> <<"DATA_DEF_USE", "DATA_CALLEE">>,
     Parameter   |-> <<"PARAMETER_IN", "PARAMETER_FIELD">>,
     Anno        |-> <<"ANNO_GLOBAL", "ANNO_OTHER">>,
     PDGEdge     |-> <<"CONTROLDEP_CALLINV", "Anno">>]

EdgeCollations ==
    [ControlDep  |-> <<"CONTROLDEP_CALLINV", "CONTROLDEP_OTHER">>,
     DataDepEdge |-> <<"DATA_DEF_USE", "DATA_ALIAS">>,
     Parameter   |-> <<"PARAMETER_IN", "PARAMETER_FIELD">>,
     Anno        |-> <<"ANNO_GLOBAL", "ANNO_OTHER">>,
     PDGEdge     |-> <<"CONTROLDEP_CALLINV", "Anno">>]

GraphNodeType == Range(MznNodeType) \ DOMAIN NodeCollations
EdgeType      == Range(MznEdgeType) \ (DOMAIN EdgeCollations \cup {"Parameter_Indirect_In"})

Globals == {"VAR_STATICALLOCGLOBALSCOPE", "VAR_STATICALLOCMODULESCOPE",
            "VAR_STATICALLOCFUNCTIONSCOPE", "ANNO_GLOBAL"}
Insts   == {"INST_FUNCALL", "INST_RET", "INST_BR", "INST_OTHER", "ANNO_VAR"}
Params  == {"PARAM_FORMALIN", "PARAM_FORMALOUT", "PARAM_ACTUALIN", "PARAM_ACTUALOUT"}

-----------------------------------------------------------------------------
(***************************************************************************)
(* A graph: `order' is the node set in the order of its addresses and      *)
(* out[n] the out edges of n in theirs, so any order is possible.  fn[n]   *)
(* is the entry node of the function n belongs to, arity[n] the number of  *)
(* parameters of the function n is the entry of; `named' are the nodes     *)
(* whose global or function has a name.                                    *)
(***************************************************************************)
GraphRecord ==
    [order : Seq(Node), out : [Node -> Seq(Edge)], dst : [Edge -> Node],
     ntype : [Node -> GraphNodeType], etype : [Edge -> EdgeType],
     fn : [Node -> Node \cup {None}], anno : [Node -> STRING \cup {None}],
     param : [Node -> Nat \cup {-1}], inst : [Node -> Nat \cup {-1}], arity : [Node -> Nat],
     unused : SUBSET Node, named : SUBSET Node]

Members(g) == Range(g.order)

\* What the passes before the printer leave behind.
WellFormed(g) ==
    /\ g \in GraphRecord
    /\ g.order # <<>> /\ IsInjective(g.order)
    /\ \A n \in Node : IsInjective(g.out[n])
    /\ \A m, n \in Node : m # n => Range(g.out[m]) \cap Range(g.out[n]) = {}
    /\ \A n \in Node : \A d, e \in Range(g.out[n]) :
          d # e => <<g.dst[d], g.etype[d]>> # <<g.dst[e], g.etype[e]>>
    /\ \A n \in Node : g.ntype[n] = "FUNC_ENTRY" => g.fn[n] = n /\ n \in Members(g)
    /\ \A n \in Node : g.fn[n] # None => g.ntype[g.fn[n]] = "FUNC_ENTRY"
    /\ \A n \in Node : g.ntype[n] \in Insts \cup Params => g.fn[n] # None
    /\ \A n \in Node : g.ntype[n] \in Insts <=> g.inst[n] # -1
    /\ \A n \in Node : g.ntype[n] \notin Params => g.param[n] = -1
    /\ \A n \in Node : g.ntype[n] \in {"PARAM_FORMALIN", "PARAM_FORMALOUT"} =>
          g.param[n] < g.arity[g.fn[n]]

ASSUME GraphsAssumption == \A g \in Graphs : WellFormed(g)

VARIABLES
    graph,              \* the graph being exported
    etype,              \* the types of its edges, which the printer changes
    pc, at,             \* the loop of the printer, and where it stands in it
    nodesBy, edgesBy,   \* nodes and edges grouped by type
    nodeTab, edgeTab,   \* the RangesAndIds of nodes and of edges
    glob,               \* exportNodeToLLID's pointer to a global
    mzn, data, fnArgs, oneway, llid \* what the files say

vars == <<graph, etype, pc, at, nodesBy, edgesBy, nodeTab, edgeTab, glob,
          mzn, data, fnArgs, oneway, llid>>

files == <<mzn, data, fnArgs, oneway, llid>>

Empty == [range |-> <<>>, ids |-> <<>>, ordered |-> <<>>]

Init ==
    /\ graph \in Graphs
    /\ etype = graph.etype
    /\ pc = "groupNodes"
    /\ at = 1
    /\ nodesBy = [t \in GraphNodeType |-> <<>>]
    /\ edgesBy = [t \in EdgeType |-> <<>>]
    /\ nodeTab = Empty
    /\ edgeTab = Empty
    /\ glob = None
    /\ mzn = None
    /\ data = None
    /\ fnArgs = <<>>
    /\ oneway = <<>>
    /\ llid = <<>>

\* The next place of a loop of `n' rounds, or the loop after it.
Step(n, after) ==
    IF at < n THEN at' = at + 1 /\ UNCHANGED pc
              ELSE at' = 1 /\ pc' = after

-----------------------------------------------------------------------------
(* Grouping. *)

\* nodesByNodeType, one round.
GroupNode ==
    /\ pc = "groupNodes"
    /\ at \in DOMAIN graph.order
    /\ LET n == graph.order[at]
       IN nodesBy' = [nodesBy EXCEPT ![graph.ntype[n]] = Append(@, n)]
    /\ Step(Len(graph.order), "groupEdges")
    /\ UNCHANGED <<graph, etype, edgesBy, nodeTab, edgeTab, glob, files>>

\* Mutant: only edges that lead to an annotated variable.
RelabelledByEnd(n) ==
    [e \in Edge |-> IF e \in Range(graph.out[n]) /\ graph.ntype[graph.dst[e]] = "ANNO_VAR"
                    THEN "ANNO_VAR" ELSE etype[e]]

\* An edge from or to an annotated variable becomes an annotation edge.
Relabelled(n) ==
    LET onAnno(e) == "ANNO_VAR" \in {graph.ntype[n], graph.ntype[graph.dst[e]]}
    IN [e \in Edge |-> IF e \in Range(graph.out[n]) /\ onAnno(e) THEN "ANNO_VAR" ELSE etype[e]]

\* edgesByEdgeType, one round of the outer loop.
GroupEdges ==
    /\ pc = "groupEdges"
    /\ at \in DOMAIN graph.order
    /\ LET n == graph.order[at]
       IN /\ etype' = Relabelled(n)
          /\ edgesBy' = [t \in EdgeType |->
                edgesBy[t] \o Kept(graph.out[n], {e \in Edge : etype'[e] = t})]
    /\ Step(Len(graph.order), "numberNodes")
    /\ UNCHANGED <<graph, nodesBy, nodeTab, edgeTab, glob, files>>

-----------------------------------------------------------------------------
(* Numbering. *)

\* Mutant: each group is numbered from 0.
NumberedFromZero(tab, p, group) ==
    [range   |-> [q \in DOMAIN tab.range \cup {p} |->
                     IF q = p THEN <<Len(tab.ordered), Len(tab.ordered) + Len(group)>>
                     ELSE tab.range[q]],
     ids     |-> [x \in DOMAIN tab.ids \cup Range(group) |->
                     IF x \in Range(group) THEN Place(group, x) - 1 ELSE tab.ids[x]],
     ordered |-> tab.ordered \o group]

\* One round of toRangesAndIds: the group of place p goes behind the others.
Numbered(tab, p, group) ==
    LET index == Len(tab.ordered)
    IN [range   |-> [q \in DOMAIN tab.range \cup {p} |->
                        IF q = p THEN <<index, index + Len(group)>> ELSE tab.range[q]],
        ids     |-> [x \in DOMAIN tab.ids \cup Range(group) |->
                        IF x \in Range(group) THEN index + Place(group, x) - 1 ELSE tab.ids[x]],
        ordered |-> tab.ordered \o group]

\* The places from `at' on that have a group, in the order of the map.
Filled(by, enum) == {p \in DOMAIN enum : p >= at /\ enum[p] \in DOMAIN by /\ by[enum[p]] # <<>>}

Number(by, enum, tab, after) ==
    \E p \in Filled(by, enum) :
        /\ \A q \in Filled(by, enum) : p <= q
        /\ tab' = Numbered(tab, p, by[enum[p]])
        /\ IF Filled(by, enum) = {p} THEN at' = 1 /\ pc' = after
                                     ELSE at' = p + 1 /\ UNCHANGED pc

NumberNodes ==
    /\ pc = "numberNodes"
    /\ Number(nodesBy, MznNodeType, nodeTab, "numberEdges")
    /\ UNCHANGED <<graph, etype, nodesBy, edgesBy, edgeTab, glob, files>>

NumberEdges ==
    /\ pc = "numberEdges"
    /\ IF Filled(edgesBy, MznEdgeType) = {}
       THEN pc' = "mzn" /\ UNCHANGED <<at, edgeTab>>
       ELSE Number(edgesBy, MznEdgeType, edgeTab, "mzn")
    /\ UNCHANGED <<graph, etype, nodesBy, edgesBy, nodeTab, glob, files>>

-----------------------------------------------------------------------------
(* pdg_instance.mzn *)

\* calculateCollatedRange, and the +1 of its callers.
Collated(ranges, from, to) ==
    LET defined == {p \in from .. to : p \in DOMAIN ranges}
        First(p) == \A q \in defined : p <= q
        Last(p)  == \A q \in defined : p >= q
    IN IF defined = {} THEN <<0, -1>>
       ELSE <<ranges[CHOOSE p \in defined : First(p)][1] + 1,
              ranges[CHOOSE p \in defined : Last(p)][2]>>

\* exportMznNodes and exportMznEdges.
StartEnd(ranges, enum, collations) ==
    [t \in Range(enum) |->
        IF t \in DOMAIN collations
        THEN Collated(ranges, Place(enum, collations[t][1]), Place(enum, collations[t][2]))
        ELSE Collated(ranges, Place(enum, t), Place(enum, t))]

\* ids[n] of a std::map: a node without a number gets 0.
Id(n) == IF n \in DOMAIN nodeTab.ids THEN nodeTab.ids[n] ELSE 0

HasFn(n) == graph.fn[n] # None

Nodes == nodeTab.ordered
Edges == edgeTab.ordered

HasFunction ==
    [i \in DOMAIN Nodes |-> IF HasFn(Nodes[i]) THEN Id(graph.fn[Nodes[i]]) + 1 ELSE 0]

Src(e) == CHOOSE n \in Node : e \in Range(graph.out[n])

\* Mutant: numbers from 0.
HasSourceFromZero == [i \in DOMAIN Edges |-> Id(Src(Edges[i]))]

HasSource == [i \in DOMAIN Edges |-> Id(Src(Edges[i])) + 1]
HasDest   == [i \in DOMAIN Edges |-> Id(graph.dst[Edges[i]]) + 1]

NodesOf(T) == Kept(Nodes, {n \in Node : graph.ntype[n] \in T})

ParamIdx(s) == [i \in DOMAIN s |-> LET k == graph.param[s[i]] IN IF k >= 0 THEN k + 1 ELSE k]

\* Mutant: the formal parameters only.
HasParamIdxFormal == ParamIdx(NodesOf({"PARAM_FORMALIN", "PARAM_FORMALOUT"}))

HasParamIdx == ParamIdx(NodesOf(Params))

\* maxFnParams
MaxFnParams ==
    LET entries == {n \in Members(graph) : graph.ntype[n] = "FUNC_ENTRY"}
        arities == {0} \cup {graph.arity[n] : n \in entries}
    IN CHOOSE k \in arities : \A j \in arities : j <= k

Entries == NodesOf({"FUNC_ENTRY"})

UserAnnotated == [i \in DOMAIN Entries |-> graph.anno[Entries[i]] # None]

\* exportMznConstraints: the number and the label of each annotated node.
Taints == {<<i, graph.anno[Nodes[i]]>> : i \in {j \in DOMAIN Nodes : graph.anno[Nodes[j]] # None}}

ExportMzn ==
    /\ pc = "mzn"
    /\ mzn' = [nodes  |-> StartEnd(nodeTab.range, MznNodeType, NodeCollations),
               edges  |-> StartEnd(edgeTab.range, MznEdgeType, EdgeCollations),
               hasFunction |-> HasFunction, hasSource |-> HasSource, hasDest |-> HasDest,
               hasParamIdx |-> HasParamIdx, userAnnotated |-> UserAnnotated,
               maxFuncParams |-> MaxFnParams, taints |-> Taints]
    /\ pc' = "data"
    /\ UNCHANGED <<graph, etype, at, nodesBy, edgesBy, nodeTab, edgeTab, glob, data, fnArgs,
                   oneway, llid>>

-----------------------------------------------------------------------------
(* pdg_data.csv *)

\* The row of a node; the text of the value and the place in the source are
\* left out.
DataRow(n, fn) ==
    [type |-> graph.ntype[n], anno |-> graph.anno[n], fn |-> fn,
     inst |-> graph.inst[n], param |-> graph.param[n]]

\* Mutant: the number of the function is the one hasFn's map has.
DataNodesFromZero ==
    [i \in DOMAIN Nodes |->
        DataRow(Nodes[i], IF HasFn(Nodes[i]) THEN Id(graph.fn[Nodes[i]]) ELSE 0)]

DataNodes ==
    [i \in DOMAIN Nodes |->
        DataRow(Nodes[i], IF HasFn(Nodes[i]) THEN Id(graph.fn[Nodes[i]]) + 1 ELSE 0)]

DataEdges ==
    [i \in DOMAIN Edges |->
        [type |-> etype[Edges[i]], src |-> Id(Src(Edges[i])) + 1,
         dst |-> Id(graph.dst[Edges[i]]) + 1]]

\* exportDebug
ExportDebug ==
    /\ pc = "data"
    /\ data' = [nodes |-> DataNodes, edges |-> DataEdges]
    /\ pc' = "fnArgs"
    /\ UNCHANGED <<graph, etype, at, nodesBy, edgesBy, nodeTab, edgeTab, glob, mzn, fnArgs,
                   oneway, llid>>

-----------------------------------------------------------------------------
(* functionArgs.txt, oneway.txt and pdg_node_to_llid.csv *)

AnnotatedEntries ==
    Kept(Nodes, {n \in Node : graph.ntype[n] = "FUNC_ENTRY" /\ graph.anno[n] # None})

ExportFnArgs ==
    /\ pc = "fnArgs"
    /\ fnArgs' = [i \in DOMAIN AnnotatedEntries |->
                     LET n == AnnotatedEntries[i]
                     IN [fn |-> n, anno |-> graph.anno[n], args |-> graph.arity[n]]]
    /\ pc' = "oneway"
    /\ UNCHANGED <<graph, etype, at, nodesBy, edgesBy, nodeTab, edgeTab, glob, mzn, data,
                   oneway, llid>>

EdgeID(e) == EdgeCount - e

\* fnResultUsed, the identifiers of edges mapped to true.
FnResultUsed ==
    {EdgeID(e) : e \in {d \in Range(Edges) :
                            etype[d] = "CONTROLDEP_CALLINV" /\ Src(d) \in graph.unused}}

\* exportOneway: the map of edge identifiers is read with the identifier of a
\* node.
ExportOneway ==
    /\ pc = "oneway"
    /\ oneway' = [i \in DOMAIN AnnotatedEntries |->
                     LET n == AnnotatedEntries[i]
                     IN [fn |-> n, anno |-> graph.anno[n], used |-> n \in FnResultUsed]]
    /\ pc' = "llid"
    /\ UNCHANGED <<graph, etype, at, nodesBy, edgesBy, nodeTab, edgeTab, glob, mzn, data,
                   fnArgs, llid>>

\* Mutant: the pointer is kept when the value is no global.
GlobKept(n) == IF graph.ntype[n] \in Globals THEN {n} ELSE {None, glob}

\* The pointer `glob' after the test of line 633: tree nodes have no value and
\* leave it uninitialized, so it is null or what the last round left there.
Glob(n) ==
    IF graph.ntype[n] \in Params THEN {None, glob}
    ELSE {IF graph.ntype[n] \in Globals THEN n ELSE None}

\* The row of a node: of a global, of an instruction or a parameter by its
\* place in its function, of a function, or an empty one.  What has no name is
\* not named, and neither are the parts of a function that has none.
Row(n, g) ==
    LET f == Nodes[Id(graph.fn[n]) + 1]
    IN IF g \in graph.named THEN [kind |-> "global", of |-> g, place |-> 0]
       ELSE IF ~(HasFn(n) /\ f \in graph.named) THEN [kind |-> "none", of |-> None, place |-> 0]
       ELSE IF graph.inst[n] # -1 THEN [kind |-> "inst", of |-> f, place |-> graph.inst[n]]
       ELSE IF graph.param[n] # -1 THEN [kind |-> "param", of |-> f, place |-> graph.param[n]]
       ELSE IF graph.ntype[n] = "FUNC_ENTRY" THEN [kind |-> "fn", of |-> f, place |-> 0]
       ELSE [kind |-> "none", of |-> None, place |-> 0]

\* exportNodeToLLID, one round.
ExportNodeToLLID ==
    /\ pc = "llid"
    /\ at \in DOMAIN Nodes
    /\ LET n == Nodes[at]
       IN \E g \in Glob(n) : glob' = g /\ llid' = Append(llid, Row(n, g))
    /\ Step(Len(Nodes), "done")
    /\ UNCHANGED <<graph, etype, nodesBy, edgesBy, nodeTab, edgeTab, mzn, data, fnArgs,
                   oneway>>

Next ==
    \/ GroupNode
    \/ GroupEdges
    \/ NumberNodes
    \/ NumberEdges
    \/ ExportMzn
    \/ ExportDebug
    \/ ExportFnArgs
    \/ ExportOneway
    \/ ExportNodeToLLID

Spec == Init /\ [][Next]_vars /\ WF_vars(Next)

-----------------------------------------------------------------------------
(* Properties. *)

Written == pc \in {"data", "fnArgs", "oneway", "llid", "done"}

\* Every node of the graph and every edge that leaves one has one number, and
\* nothing else has: grouping and numbering lose nothing and repeat nothing.
NothingLost ==
    Written =>
        /\ IsInjective(nodeTab.ordered)
        /\ Range(nodeTab.ordered) = Members(graph)
        /\ IsInjective(edgeTab.ordered)
        /\ Range(edgeTab.ordered) = UNION {Range(graph.out[n]) : n \in Members(graph)}
        /\ \A tab \in {nodeTab, edgeTab} :
              \A i \in DOMAIN tab.ordered : tab.ids[tab.ordered[i]] + 1 = i

Numbers(range) == range[1] .. range[2]

NumbersOf(tab, type, T) == {i \in DOMAIN tab.ordered : type[tab.ordered[i]] \in T}

\* The types that make up a collated type.  Data dependences are those within
\* a function, through a global or through a return value: the passing of
\* arguments and the use of a callee, which stand behind them in the order of
\* the types, have ranges of their own and count with PDGEdge only.
NodeKinds ==
    [Inst       |-> Insts \ {"ANNO_VAR"},
     VarNode    |-> {"VAR_STATICALLOCGLOBALSCOPE", "VAR_STATICALLOCMODULESCOPE",
                     "VAR_STATICALLOCFUNCTIONSCOPE", "VAR_OTHER"},
     Param      |-> Params,
     Annotation |-> {"ANNO_VAR", "ANNO_GLOBAL", "ANNO_OTHER"},
     PDGNode    |-> GraphNodeType]

EdgeKinds ==
    [ControlDep |-> {"CONTROLDEP_CALLINV", "CONTROLDEP_CALLRET", "CONTROLDEP_ENTRY",
                     "CONTROLDEP_BR", "CONTROLDEP_OTHER", "IND_CALL"},
     DataDepEdge |-> {"DATA_DEF_USE", "DATA_GLOBAL_DEF_USE", "DATA_RAW", "DATA_RET",
                      "DATA_INDIRECT_RET", "DATA_ALIAS"},
     Parameter  |-> {"PARAMETER_IN", "PARAMETER_OUT", "PARAMETER_FIELD"},
     Anno       |-> {"ANNO_GLOBAL", "ANNO_VAR", "ANNO_OTHER"},
     PDGEdge    |-> EdgeType]

\* A reader that asks which numbers are of a type gets exactly those, whether
\* the type is a leaf or collated, and whichever types the graph lacks.
RangesExact ==
    Written =>
        /\ \A t \in GraphNodeType :
              Numbers(mzn.nodes[t]) = NumbersOf(nodeTab, graph.ntype, {t})
        /\ \A t \in EdgeType :
              Numbers(mzn.edges[t]) = NumbersOf(edgeTab, etype, {t})
        /\ \A k \in DOMAIN NodeKinds :
              Numbers(mzn.nodes[k]) = NumbersOf(nodeTab, graph.ntype, NodeKinds[k])
        /\ \A k \in DOMAIN EdgeKinds :
              Numbers(mzn.edges[k]) = NumbersOf(edgeTab, etype, EdgeKinds[k])

\* hasSource and hasDest name the ends of every edge whose ends are in the
\* graph; a source always is.
EndsDecode ==
    Written => \A i \in DOMAIN edgeTab.ordered :
        LET e == edgeTab.ordered[i]
            Names(k, n) == k \in DOMAIN nodeTab.ordered /\ nodeTab.ordered[k] = n
        IN /\ Names(mzn.hasSource[i], Src(e))
           /\ graph.dst[e] \in Members(graph) => Names(mzn.hasDest[i], graph.dst[e])

\* The j-th number of a range.
Nth(range, j) == nodeTab.ordered[range[1] + j - 1]

\* The arrays over Param and over FunctionEntry line up with those ranges, and
\* hasFunction names a number of the range of function entries or none.
ArraysAligned ==
    Written =>
        /\ DOMAIN mzn.hasParamIdx = 1 .. Cardinality(Numbers(mzn.nodes.Param))
        /\ \A j \in DOMAIN mzn.hasParamIdx :
              LET k == graph.param[Nth(mzn.nodes.Param, j)]
              IN mzn.hasParamIdx[j] = IF k = -1 THEN -1 ELSE k + 1
        /\ DOMAIN mzn.userAnnotated = 1 .. Cardinality(Numbers(mzn.nodes.FUNC_ENTRY))
        /\ \A j \in DOMAIN mzn.userAnnotated :
              mzn.userAnnotated[j] <=> graph.anno[Nth(mzn.nodes.FUNC_ENTRY, j)] # None
        /\ \A i \in DOMAIN nodeTab.ordered :
              LET f == mzn.hasFunction[i]
              IN /\ f # 0 => f \in Numbers(mzn.nodes.FUNC_ENTRY)
                 /\ graph.fn[nodeTab.ordered[i]] = IF f = 0 THEN None ELSE nodeTab.ordered[f]

\* The row of a node names that node and never another, and there is a name in
\* it whenever the node or its function has one: in particular no
\* parameter takes the name of a global from the uninitialized pointer, because
\* the entry of its function is numbered between the globals and it.
RowsIdentify ==
    \A i \in DOMAIN llid :
        LET n == nodeTab.ordered[i]
            r == llid[i]
        IN /\ r.kind = "global" => r.of = n
           /\ r.kind # "global" => r.of \in {graph.fn[n], None}
           /\ graph.ntype[n] \in Globals /\ n \in graph.named => r.kind = "global"
           /\ graph.ntype[n] \in Insts /\ graph.fn[n] \in graph.named => r.kind = "inst"
           /\ graph.ntype[n] = "FUNC_ENTRY" /\ n \in graph.named => r.kind = "fn"

Touches(e) == {graph.ntype[Src(e)], graph.ntype[graph.dst[e]]}

\* Edges of an annotated variable are exported as annotation edges whatever
\* they were, in whichever order the nodes are met.  Edges of different types
\* may become alike, so an edge may be exported twice, but no other edge is.
AnnoEdges ==
    Written => \A d, e \in Range(edgeTab.ordered) :
        /\ "ANNO_VAR" \in Touches(e) => etype[e] = "ANNO_VAR"
        /\ "ANNO_VAR" \notin Touches(e) => etype[e] = graph.etype[e]
        /\ (d # e /\ Src(d) = Src(e) /\ graph.dst[d] = graph.dst[e] /\ etype[d] = etype[e])
               => "ANNO_VAR" \in Touches(e)

\* The files are read side by side, with the numbers to join them, so they must
\* say the same of a number: the type, the function, the label and the ends in
\* pdg_data.csv are those of pdg_instance.mzn, the parameter is counted from 0
\* in the one and from 1 in the other, the names of pdg_node_to_llid.csv agree
\* with both, and functionArgs.txt and oneway.txt are about the labelled
\* function entries, none with more parameters than MaxFuncParams.
FilesAgree ==
    pc = "done" =>
        /\ DOMAIN data.nodes = DOMAIN mzn.hasFunction /\ DOMAIN llid = DOMAIN data.nodes
        /\ DOMAIN data.edges = DOMAIN mzn.hasSource
        /\ \A i \in DOMAIN data.nodes :
              LET d == data.nodes[i]
              IN /\ i \in Numbers(mzn.nodes[d.type])
                 /\ d.fn = mzn.hasFunction[i]
                 /\ d.anno # None <=> <<i, d.anno>> \in mzn.taints
                 /\ d.type \in Params =>
                      d.param = LET k == mzn.hasParamIdx[i - mzn.nodes.Param[1] + 1]
                                IN IF k = -1 THEN -1 ELSE k - 1
                 /\ d.type \in {"PARAM_FORMALIN", "PARAM_FORMALOUT"} => d.param < mzn.maxFuncParams
                 /\ llid[i].kind \in {"inst", "param", "fn"} =>
                      /\ llid[i].of = nodeTab.ordered[d.fn]
                      /\ llid[i].place = CASE llid[i].kind = "inst" -> d.inst
                                           [] llid[i].kind = "param" -> d.param
                                           [] OTHER -> 0
        /\ \A i \in DOMAIN data.edges :
              LET d == data.edges[i]
              IN /\ i \in Numbers(mzn.edges[d.type])
                 /\ d.src = mzn.hasSource[i] /\ d.dst = mzn.hasDest[i]
        /\ \A i \in DOMAIN fnArgs \cup DOMAIN oneway :
              /\ fnArgs[i].fn = oneway[i].fn /\ fnArgs[i].anno = oneway[i].anno
              /\ fnArgs[i].args <= mzn.maxFuncParams
        /\ {nodeTab.ids[fnArgs[i].fn] + 1 : i \in DOMAIN fnArgs} =
              {x[1] : x \in mzn.taints} \cap Numbers(mzn.nodes.FUNC_ENTRY)

=============================================================================
