---------------------------- MODULE PassPipeline ----------------------------
(***************************************************************************)
(* The passes as opt runs them: what the command line asks for, and what   *)
(* each pass declares to need, is scheduled by LLVM's legacy pass manager, *)
(* and all of them work on the one graph of ProgramGraph::getInstance(),   *)
(* which no pass clears.  So what a pass finds depends on which others ran *)
(* before it.  The passes are taken whole here; what each adds to the      *)
(* graph is a constant, and how it comes to that is in the other modules.  *)
(***************************************************************************)
EXTENDS Naturals, Sequences, Bags, Functions

CONSTANTS
    Requests,   \* command lines: sequences of passes
    TreeEdges,  \* what ProgramGraph::build adds to an empty graph
    DataEdges, ControlEdges, LinkEdges, \* what -ddg, -cdg and -pdg add
    Addressed,  \* pairs of a value and a tree node whose address variable it is
    Annotated   \* the nodes of type ANNO_VAR

Passes == {"ddg", "cdg", "pdg", "minizinc"}

\* opt runs at least one pass.
ASSUME RequestsAssumption == Requests \subseteq Seq(Passes) \ {<<>>}

\* An edge is <<source, destination, type>>.  No pass but -ddg makes aliases.
ASSUME EdgesAssumption ==
    /\ \A e \in TreeEdges \cup DataEdges \cup ControlEdges \cup LinkEdges :
          DOMAIN e = 1 .. 3 /\ e[3] \in STRING
    /\ \A e \in TreeEdges \cup ControlEdges \cup LinkEdges : e[3] # "DATA_ALIAS"

VARIABLES
    request,   \* the command line
    todo,      \* the part of it that is not scheduled yet
    available, \* the analyses the pass manager counts as available
    queue,     \* the passes scheduled and not yet run
    built,     \* ProgramGraph::isBuild()
    edges,     \* a bag: a pair of nodes may have two edges of one type
    exports,   \* the graph as each run of -minizinc wrote it
    crashed

vars == <<request, todo, available, queue, built, edges, exports, crashed>>
graph == <<built, edges, exports, crashed>>

Init ==
    /\ request \in Requests
    /\ todo = request
    /\ available = {}
    /\ queue = <<>>
    /\ built = FALSE
    /\ edges = EmptyBag
    /\ exports = <<>>
    /\ crashed = FALSE

-----------------------------------------------------------------------------
(* Scheduling.  -cdg is a pass over functions and the others are passes    *)
(* over modules.  What a module pass needs of a function pass is run on    *)
(* the fly when it asks, and every pass preserves everything; yet the      *)
(* analyses of functions are forgotten when a module pass is scheduled.    *)

Analyses == {"ddg", "cdg", "pdg"}

Unless(p) == IF p \in available THEN <<>> ELSE <<p>>

\* Mutant: the program dependency pass does not ask for data dependencies.
RequiredBare(p) == IF p = "minizinc" THEN Unless("pdg") ELSE <<>>

\* getAnalysisUsage, transitively, without what is run on the fly.
Required(p) ==
    CASE p = "minizinc" -> Unless("ddg") \o Unless("pdg")
      [] p = "pdg"      -> Unless("ddg")
      [] OTHER          -> <<>>

New(p) == Required(p) \o Unless(p)

Scheduled(s) == {s[i] : i \in DOMAIN s}

Schedule ==
    /\ todo # <<>>
    /\ LET new == New(Head(todo))
       IN /\ queue' = queue \o new
          /\ available' = (IF Scheduled(new) \subseteq {"cdg"} THEN available
                                                             ELSE available \ {"cdg"})
                          \cup (Scheduled(new) \cap Analyses)
    /\ todo' = Tail(todo)
    /\ UNCHANGED <<request, graph>>

-----------------------------------------------------------------------------
(* Running. *)

\* Mutant: an edge is added whether it is there or not.
AddedAgain(bag, new) == bag (+) SetToBag(new)

\* addNeighbor: no second edge of one type between two nodes.
Added(bag, new) == bag (+) SetToBag({e \in new : ~BagIn(e, bag)})

\* Every pass but -cdg builds the graph if it is the first.
Built(bag) == IF built THEN bag ELSE Added(bag, TreeEdges)

Runs(p) == todo = <<>> /\ ~crashed /\ queue # <<>> /\ Head(queue) = p
Done == queue' = Tail(queue) /\ UNCHANGED <<request, todo, available>>

\* Mutant: the graph is not marked as built.
RunDdgUnmarked ==
    /\ Runs("ddg")
    /\ edges' = Added(Built(edges), DataEdges)
    /\ UNCHANGED <<built, exports, crashed>>
    /\ Done

RunDdg ==
    /\ Runs("ddg")
    /\ edges' = Added(Built(edges), DataEdges)
    /\ built' = TRUE
    /\ UNCHANGED <<exports, crashed>>
    /\ Done

\* On a graph that is not built a function has no wrapper to take the entry
\* node from.
RunCdg ==
    /\ Runs("cdg")
    /\ IF built THEN edges' = Added(edges, ControlEdges) /\ UNCHANGED crashed
                ELSE crashed' = TRUE /\ UNCHANGED edges
    /\ UNCHANGED <<built, exports>>
    /\ Done

\* The edges that follow the aliases of address variables into the callee.
Followed(bag) ==
    LET aliases(v) == {e \in BagToSet(bag) : e[1] = v /\ e[3] = "DATA_ALIAS"}
    IN UNION {{<<a[2], e[2], "PARAMETER_IN">> : e \in aliases(a[1])} : a \in Addressed}

\* Control dependencies are computed on the fly, function by function.
RunPdg ==
    /\ Runs("pdg")
    /\ LET before == Added(Built(edges), ControlEdges)
       IN edges' = Added(before, LinkEdges \cup Followed(before))
    /\ built' = TRUE
    /\ UNCHANGED <<exports, crashed>>
    /\ Done

Annotating(e) == {e[1], e[2]} \cap Annotated # {}

Relabelled(e) == IF Annotating(e) THEN <<e[1], e[2], "ANNO_VAR">> ELSE e

\* edgesByEdgeType changes the edges of the graph itself, those at annotations.
RunMinizinc ==
    /\ Runs("minizinc")
    /\ LET there == {e \in BagToSet(edges) : Annotating(e)}
       IN edges' = Restrict(edges, BagToSet(edges) \ there)
                   (+) BagOfAll(Relabelled, Restrict(edges, there))
    /\ exports' = Append(exports, edges')
    /\ UNCHANGED <<built, crashed>>
    /\ Done

Next == Schedule \/ RunDdg \/ RunCdg \/ RunPdg \/ RunMinizinc

Spec == Init /\ [][Next]_vars /\ WF_vars(Next)

-----------------------------------------------------------------------------
(* Properties. *)

Whole ==
    TreeEdges \cup DataEdges \cup ControlEdges \cup LinkEdges \cup Followed(SetToBag(DataEdges))

\* Every export has all the edges of the program and no other, whatever else
\* the command line runs before it and however often.
ExportComplete ==
    \A i \in DOMAIN exports : BagToSet(exports[i]) = {Relabelled(e) : e \in Whole}

\* A pass that runs again adds nothing, except at annotated variables: there an
\* export has changed the types, the control edges are no longer found, and
\* are added a second time.
OnceEach ==
    \A e \in BagToSet(edges) :
        edges[e] > 1 =>
            /\ exports # <<>>
            /\ Annotating(e)

\* The control dependency pass, which the documentation offers on its own,
\* fails when it comes first, and no other command line does.
OnlyCdgFirstFails ==
    todo = <<>> /\ (crashed \/ queue = <<>>) => (crashed <=> request[1] = "cdg")

=============================================================================
