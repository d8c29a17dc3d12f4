----------------------------- MODULE GraphSearch -----------------------------
(***************************************************************************)
(* The two searches that answer whether one node of a graph reaches        *)
(* another: depth first, passing over edges of some types                  *)
(* (GenericGraph::canReach), and breadth first over all of them            *)
(* (PDGCallGraph::canReach).  Both put off the test for visited nodes      *)
(* until a node is taken from the stack or queue, which may hold it more   *)
(* than once.                                                              *)
(***************************************************************************)
EXTENDS Integers, FiniteSets, Sequences

CONSTANTS
    Node,
    EdgeType,
    Graphs     \* the graphs to search: sets of edges <<source, destination, type>>

ASSUME GraphsAssumption ==
    \A g \in Graphs : g \subseteq Node \X Node \X EdgeType /\ IsFiniteSet(g)

VARIABLES
    graph,
    src, dst,
    excluded,  \* the edge types passed over, none for the breadth-first search
    lifo,      \* TRUE for the depth-first search
    work,      \* the stack (its top first) or queue
    visited,
    answer     \* "none" until the search returns

vars == <<graph, src, dst, excluded, lifo, work, visited, answer>>

Init ==
    /\ graph \in Graphs
    /\ src \in Node
    /\ dst \in Node
    /\ lifo \in BOOLEAN
    /\ excluded \in IF lifo THEN SUBSET EdgeType ELSE {{}}
    /\ work = <<src>>
    /\ visited = {}
    /\ answer = "none"

\* The edges out of n the search follows.
Followed(n) == {e \in graph : e[1] = n /\ e[3] \notin excluded}

\* The destinations of the edges E in any order: edges are kept in sets of
\* pointers.
Orders(E) ==
    {s \in [1 .. Cardinality(E) -> {e[2] : e \in E}] :
        \A e \in E : \E i \in 1 .. Cardinality(E) : s[i] = e[2]}

\* Mutant: without the test, as if every edge led to a new node.
SeenNever(n) == FALSE /\ n \in visited

Seen(n) == n \in visited

Searching == answer = "none" /\ work # <<>>

\* A node taken again.
Skip ==
    /\ Searching
    /\ Seen(Head(work))
    /\ lifo \/ Head(work) # dst
    /\ work' = Tail(work)
    /\ UNCHANGED <<graph, src, dst, excluded, lifo, visited, answer>>

\* The depth-first search marks the node before it looks at it.
Find ==
    /\ Searching
    /\ Head(work) = dst
    /\ lifo => ~Seen(dst)
    /\ work' = Tail(work)
    /\ visited' = IF lifo THEN visited \cup {dst} ELSE visited
    /\ answer' = "yes"
    /\ UNCHANGED <<graph, src, dst, excluded, lifo>>

\* Mutant: the rest of the work list is forgotten.
PushedReplace(s) == IF lifo THEN s ELSE Tail(work) \o s

Pushed(s) == IF lifo THEN s \o Tail(work) ELSE Tail(work) \o s

Expand ==
    /\ Searching
    /\ Head(work) # dst
    /\ ~Seen(Head(work))
    /\ visited' = visited \cup {Head(work)}
    /\ \E s \in Orders(Followed(Head(work))) : work' = Pushed(s)
    /\ UNCHANGED <<graph, src, dst, excluded, lifo, answer>>

GiveUp ==
    /\ answer = "none"
    /\ work = <<>>
    /\ answer' = "no"
    /\ UNCHANGED <<graph, src, dst, excluded, lifo, work, visited>>

Next ==
    \/ Skip
    \/ Find
    \/ Expand
    \/ GiveUp

Spec == Init /\ [][Next]_vars /\ WF_vars(Next)

-----------------------------------------------------------------------------
(* Properties. *)

\* The variables have their types.
TypeOK ==
    /\ graph \in SUBSET (Node \X Node \X EdgeType) /\ IsFiniteSet(graph)
    /\ src \in Node
    /\ dst \in Node
    /\ excluded \subseteq EdgeType
    /\ lifo \in BOOLEAN
    /\ work \in Seq(Node)
    /\ visited \subseteq Node
    /\ answer \in {"none", "yes", "no"}

\* A set of nodes that no edge the search follows leaves.
Closed(S) == \A e \in graph : e[1] \in S /\ e[3] \notin excluded => e[2] \in S

\* b is in every closed set that a is in.
Reaches(a, b) == \A S \in SUBSET Node : a \in S /\ Closed(S) => b \in S

\* The answer is right, for cycles, parallel edges and whatever order edges are
\* followed in.
AnswerRight ==
    /\ answer = "yes" => Reaches(src, dst)
    /\ answer = "no" => ~Reaches(src, dst)

\* The search ends although nodes are put into the work list more than once.
Termination == <>(answer # "none")

=============================================================================
