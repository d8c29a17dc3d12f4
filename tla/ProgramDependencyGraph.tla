----------------------- MODULE ProgramDependencyGraph -----------------------
(***************************************************************************)
(* Construction of the program dependence graph: ProgramGraph::build makes *)
(* the nodes, the parameter trees and the wrappers, the data dependency    *)
(* pass adds its edges, and ProgramDependencyGraph::runOnModule then walks *)
(* the functions in module order, adding for each one its intraprocedural  *)
(* edges and, call by call, its interprocedural ones.                      *)
(*                                                                         *)
(* One action is one iteration of one of those loops.  An edge is a triple *)
(* <<source, destination, type>>; Node::addNeighbor keeps at most one of   *)
(* each, so the graph is a set of triples.  `nodes' is the node set, which *)
(* the exporters iterate over: a tree that nobody adds to it still exists  *)
(* and may carry edges.                                                    *)
(***************************************************************************)
EXTENDS PDGNodes

CONSTANT HeapGarbage  \* TRUE when memory from `new' may hold old contents

VARIABLES
    pc,        \* the loop the passes are in
    cur,       \* the place in the module of the function it has reached
    pending,   \* the calls of that function still to be connected
    nodes,     \* the node set of the graph
    edges,     \* the edges of every node, in the node set or not
    wrapped,   \* the calls that have a call wrapper
    tagged,    \* the formal-out nodes that carry the DATA_WRITE tag
    dirty      \* the formal-in trees whose size started from garbage

state == <<nodes, edges, wrapped, tagged, dirty>>
vars  == <<prog, pc, cur, pending, state>>

-----------------------------------------------------------------------------
(* Edges between the trees of a call and the variables of its caller. *)

HasNode(v) == ValNode(v) \in nodes

ActualVars(c, f, k) ==
    {x \in Shape(f, k) \X Value : x[2] \in ActualAddr(c, k, x[1]) /\ HasNode(x[2])}

\* connectActualTreeWithAddrVars, on the in tree with the variables before the
\* call and on the out tree with all of them.
ActualVarEdges(c, f, k) ==
    {<<ValNode(x[2]), AIn(c, f, k, x[1]), "PARAMETER_IN">> :
        x \in {y \in ActualVars(c, f, k) : y[2] \in Inst => Before(y[2], c)}}
    \cup {<<ValNode(x[2]), AOut(c, f, k, x[1]), "PARAMETER_OUT">> :
        x \in ActualVars(c, f, k)}

ArgPassEdges(c, f, in, out) ==
    LET passed == {k \in 1 .. NumActual(c) : HasNode(Actual(c, k))}
        at(k)  == {<<ValNode(Actual(c, k)), AIn(c, f, j, Root), in>> : j \in TreeOf(c, f, k)}
                  \cup {<<AOut(c, f, j, Root), ValNode(Actual(c, k)), out>> : j \in TreeOf(c, f, k)}
    IN UNION {at(k) : k \in passed}

-----------------------------------------------------------------------------
(* Control: the loops over the functions, in module order. *)

F == prog.order[cur]

\* Mutant: one function too many.
AdvanceTooFar(after) ==
    IF cur <= Len(prog.order) THEN cur' = cur + 1 /\ UNCHANGED pc
                              ELSE cur' = 1 /\ pc' = after

\* Go on with the next function, or with the phase `after' when F is the last.
Advance(after) ==
    IF cur < Len(prog.order) THEN cur' = cur + 1 /\ UNCHANGED pc
                             ELSE cur' = 1 /\ pc' = after

Init ==
    /\ prog \in Programs
    /\ pc = "globals"
    /\ cur = 1
    /\ pending = {}
    /\ nodes = {}
    /\ edges = {}
    /\ wrapped = {}
    /\ tagged = {}
    /\ dirty = {}

\* ProgramGraph::build, first loop: a node for each global with debug info.
BuildGlobals ==
    /\ pc = "globals"
    /\ nodes' = {ValNode(v) : v \in prog.debugged}
    /\ pc' = "functions"
    /\ UNCHANGED <<prog, cur, pending, edges, wrapped, tagged, dirty>>

\* Second loop: instruction nodes, formal trees and entry node of F.  All the
\* trees are made; only those of the prefix go into the node set, and those of
\* the return value never.
BuildFunction ==
    /\ pc = "functions"
    /\ nodes' = nodes \cup {ValNode(i) : i \in InstsOf(F)} \cup {ValNode(F)}
                \cup UNION {FormalTrees(F, k) : k \in TreePrefix(F)}
    /\ edges' = edges \cup UNION {FormalFields(F, k) : k \in Positions(F) \cup {0}}
    /\ \E d \in SUBSET {k \in Positions(F) : HasTree(F, k)} :
          /\ d # {} => HeapGarbage
          /\ dirty' = dirty \cup {<<F, k>> : k \in d}
    /\ Advance("callsites")
    /\ UNCHANGED <<prog, pending, wrapped, tagged>>

\* Third loop: a wrapper and the actual trees for each direct call in F of a
\* function with a body.
BuildCallWrappers ==
    LET direct == {c \in CallsOf(F) : Callee(c) \in Func}
    IN  /\ pc = "callsites"
        /\ wrapped' = wrapped \cup direct
        /\ edges' = edges \cup UNION {CallFields(c, Callee(c)) : c \in direct}
        /\ Advance("annotations")
        /\ UNCHANGED <<prog, pending, nodes, tagged, dirty>>

\* buildGlobalAnnotationNodes, when the module has global annotations.
BuildGlobalAnnotations ==
    /\ pc = "annotations"
    /\ nodes' = nodes \cup (IF prog.annotated = {} THEN {} ELSE {AnnotationsNode})
    /\ edges' = edges \cup
          {<<ValNode(v), AnnotationsNode, "ANNO_GLOBAL">> : v \in prog.annotated}
    /\ pc' = "data"
    /\ UNCHANGED <<prog, cur, pending, wrapped, tagged, dirty>>

\* The data dependency pass, whose edges module DataDependency derives, and
\* connectGlobalWithUses, which runs before the functions are visited.
AddDataDependencies ==
    /\ pc = "data"
    /\ edges' = edges
          \cup {<<ValNode(d[1]), ValNode(d[2]), d[3]>> : d \in prog.dataDeps}
          \cup {<<ValNode(u[1]), ValNode(u[2]), "DATA_DEF_USE">> :
                   u \in {w \in prog.uses : w[1] \in Global /\ HasNode(w[1]) /\ HasNode(w[2])}}
          \cup {<<ValNode(u[2]), ValNode(u[1]), "DATA_GLOBAL_DEF_USE">> :
                   u \in {w \in prog.inits : HasNode(w[1]) /\ HasNode(w[2])}}
    /\ pc' = "intra"
    /\ UNCHANGED <<prog, cur, pending, nodes, wrapped, tagged, dirty>>

-----------------------------------------------------------------------------
(* connectIntraprocDependencies(F). *)

\* The control dependency pass on F; module ControlDependency derives its
\* branch edges.
ControlEdges(f) ==
    {<<ValNode(f), ValNode(i), "CONTROLDEP_ENTRY">> : i \in InstsOf(f)}
    \cup {<<ValNode(b[1]), ValNode(b[2]), "CONTROLDEP_BR">> :
             b \in {d \in prog.branchDeps : prog.owner[d[1]] = f}}

FormalVars(f, k) ==
    {x \in Shape(f, k) \X Value : x[2] \in FormalAddr(f, k, x[1]) /\ HasNode(x[2])}

\* connectFormalInTreeWithAddrVars: a tree node feeds its address variables and
\* what they may alias, except the parent's own address variables.
FormalInEdges(f, k) ==
    {<<FIn(f, k, x[1]), ValNode(x[2]), "PARAMETER_IN">> : x \in FormalVars(f, k)}
    \cup {<<FIn(f, k, x[1]), ValNode(x[2]), "PARAMETER_IN">> :
             x \in {y \in Shape(f, k) \X Inst :
                       /\ \E v \in FormalAddr(f, k, y[1]) :
                             HasNode(v) /\ <<ValNode(v), ValNode(y[2]), "DATA_ALIAS">> \in edges
                       /\ y[1] # Root => y[2] \notin FormalAddr(f, k, Parent[y[1]])}}

\* connectFormalOutTreeWithAddrVars: the variables stored to feed their tree
\* node, which is tagged as written.
Written(f, k)       == {x \in FormalVars(f, k) : Stored(x[2])}
FormalOutEdges(f, k) ==
    {<<ValNode(x[2]), FOut(f, k, x[1]), "PARAMETER_OUT">> : x \in Written(f, k)}
\* Mutant: only the root is tagged, for whatever place is written.
TagsRootOnly(f, k)  == {<<f, k, Root>> : x \in Written(f, k)}
Tags(f, k)          == {<<f, k, x[1]>> : x \in Written(f, k)}

\* The loop over the arguments returns at the first one with no tree, and then
\* the trees of the return value are not reached either.
Reached(f) == TreePrefix(f) \cup (IF TreePrefix(f) = Positions(f) THEN {0} ELSE {})

ConnectIntra ==
    /\ pc = "intra"
    /\ edges' = edges
          \cup ControlEdges(F)
          \cup {<<ValNode(F), FIn(F, k, Root), "PARAMETER_IN">> : k \in TreePrefix(F)}
          \cup {<<ValNode(F), FOut(F, k, Root), "PARAMETER_OUT">> : k \in TreePrefix(F)}
          \cup UNION {FormalInEdges(F, k) \cup FormalOutEdges(F, k) : k \in Reached(F)}
    /\ tagged' = tagged \cup UNION {Tags(F, k) : k \in Reached(F)}
    /\ pending' = CallsOf(F)
    /\ pc' = "inter"
    /\ UNCHANGED <<prog, cur, nodes, wrapped, dirty>>

-----------------------------------------------------------------------------
(* connectInterprocDependencies(F), one call at a time in textual order. *)

NextCall(c) == pc = "inter" /\ c \in pending /\ \A d \in pending : c <= d

\* connectCallerAndCallee: control and data between call, entry and returns.
InvokeEdges(c, f) ==
    {<<ValNode(c), ValNode(f), "CONTROLDEP_CALLINV">>}
    \cup {<<ValNode(r), ValNode(c), "CONTROLDEP_CALLRET">> : r \in RetsOf(f)}
    \cup {<<ValNode(r), ValNode(c), "DATA_RET">> : r \in RetsOf(f)}

\* connectInTrees and connectOutTrees go through two trees in lockstep, and
\* not at all when the recorded sizes differ: the size of a formal-in tree is
\* counted from whatever its memory held, that of every copy from zero.
SameSize(f, j, k) == Cardinality(Shape(f, j)) = Cardinality(Shape(f, k))
\* Mutant: only the roots are linked.
InTreeEdgesRootOnly(c, f, j, k) ==
    {<<AIn(c, f, j, p), FIn(f, k, p), "PARAMETER_IN">> :
        p \in {q \in {Root} : SameSize(f, j, k) /\ <<f, k>> \notin dirty}}
InTreeEdges(c, f, j, k) ==
    {<<AIn(c, f, j, p), FIn(f, k, p), "PARAMETER_IN">> :
        p \in {q \in Shape(f, k) : SameSize(f, j, k) /\ <<f, k>> \notin dirty}}
\* Mutant: the write access test of connectOutTrees is dropped.
OutTreeEdgesUntested(c, f, j, k) ==
    {<<FOut(f, k, p), AOut(c, f, j, p), "PARAMETER_OUT">> :
        p \in {q \in Shape(f, k) : SameSize(f, j, k)}}
OutTreeEdges(c, f, j, k) ==
    {<<FOut(f, k, p), AOut(c, f, j, p), "PARAMETER_OUT">> :
        p \in {q \in Shape(f, k) : SameSize(f, j, k) /\ <<f, k, q>> \in tagged}}
RetTreeEdges(c, f) ==
    {<<AIn(c, f, 0, p), FIn(f, 0, p), "PARAMETER_IN">> : p \in Shape(f, 0)}
    \cup {<<AOut(c, f, 0, p), FOut(f, 0, p), "PARAMETER_OUT">> : p \in Shape(f, 0)}

\* The pairs of an actual and a formal tree that connectCallerAndCallee joins,
\* none when the argument lists differ in length (a variadic callee).
Joined(c, f) ==
    IF NumActual(c) # prog.arity[f] THEN {}
    ELSE UNION {TreeOf(c, f, k) \X {k} : k \in {i \in Positions(f) : HasTree(f, i)}}

RootEdges(c, f) ==
    {<<ValNode(c), AIn(c, f, j, Root), "PARAMETER_IN">> : j \in CallTrees(c, f)}
    \cup {<<ValNode(c), AOut(c, f, j, Root), "PARAMETER_OUT">> : j \in CallTrees(c, f)}
TreeEdges(c, f) ==
    UNION {InTreeEdges(c, f, m[1], m[2]) \cup OutTreeEdges(c, f, m[1], m[2]) : m \in Joined(c, f)}
VarEdges(c, f) == UNION {ActualVarEdges(c, f, j) : j \in CallTrees(c, f) \cup {0}}
CallEdges(c, f) ==
    RootEdges(c, f)
    \cup VarEdges(c, f)
    \cup ArgPassEdges(c, f, "DATA_ARGPASS_IN", "DATA_ARGPASS_OUT")
    \cup InvokeEdges(c, f)
    \cup TreeEdges(c, f)
    \cup (IF NumActual(c) = prog.arity[f] THEN RetTreeEdges(c, f) ELSE {})

ConnectCall(c) ==
    /\ NextCall(c)
    /\ c \in wrapped
    /\ edges' = edges \cup CallEdges(c, Callee(c))
    /\ nodes' = nodes \cup UNION {ActualTrees(c, Callee(c), m[1]) : m \in Joined(c, Callee(c))}
    /\ pending' = pending \ {c}
    /\ UNCHANGED <<prog, pc, cur, wrapped, tagged, dirty>>

\* connectCallerIndirect: every function with a node, a user with a node and a
\* matching signature.  Only the roots of the trees go into the node set.
Used(f) == \E u \in prog.uses : u[1] = f /\ HasNode(u[2])
Candidates(c) == {f \in Func : HasNode(f) /\ Used(f) /\ <<c, f>> \in prog.matches}

IndirectEdges(c, f) ==
    {<<ValNode(c), ValNode(f), "IND_CALL">>}
    \cup CallFields(c, f)
    \cup ArgPassEdges(c, f, "DATA_ARGPASS_INDIRECT_IN", "DATA_ARGPASS_INDIRECT_OUT")
    \cup {<<ValNode(r), ValNode(f), "DATA_INDIRECT_RET">> : r \in RetsOf(f)}

\* Mutant: the roots of the in trees stay out.
IndirectRootsOut(c, f) == {AOut(c, f, j, Root) : j \in CallTrees(c, f)}

IndirectRoots(c, f) ==
    {AIn(c, f, j, Root) : j \in CallTrees(c, f)} \cup {AOut(c, f, j, Root) : j \in CallTrees(c, f)}

ConnectIndirect(c) ==
    /\ NextCall(c)
    /\ c \notin wrapped
    /\ Callee(c) = Indirect
    /\ edges' = edges \cup UNION {IndirectEdges(c, f) : f \in Candidates(c)}
    /\ nodes' = nodes \cup UNION {IndirectRoots(c, f) : f \in Candidates(c)}
    /\ pending' = pending \ {c}
    /\ UNCHANGED <<prog, pc, cur, wrapped, tagged, dirty>>

\* A direct call of a function with no body: nothing is connected.
SkipCall(c) ==
    /\ NextCall(c)
    /\ Callee(c) = External
    /\ pending' = pending \ {c}
    /\ UNCHANGED <<prog, pc, cur, state>>

LeaveFunction ==
    /\ pc = "inter"
    /\ pending = {}
    /\ IF cur < Len(prog.order) THEN cur' = cur + 1 /\ pc' = "intra"
                                ELSE cur' = 1 /\ pc' = "done"
    /\ UNCHANGED <<prog, pending, state>>

Done == pc = "done" /\ UNCHANGED vars

Next ==
    \/ BuildGlobals
    \/ BuildFunction
    \/ BuildCallWrappers
    \/ BuildGlobalAnnotations
    \/ AddDataDependencies
    \/ ConnectIntra
    \/ \E c \in Inst : ConnectCall(c) \/ ConnectIndirect(c) \/ SkipCall(c)
    \/ LeaveFunction
    \/ Done

Spec == Init /\ [][Next]_vars

-----------------------------------------------------------------------------
(* Properties. *)

Phase == {"globals", "functions", "callsites", "annotations", "data",
          "intra", "inter", "done"}

\* The state has the shape the code's containers give it.
TypeOK ==
    /\ pc \in Phase
    /\ cur \in 1 .. Len(prog.order)
    /\ pending \subseteq Inst
    /\ nodes \subseteq Node
    /\ edges \subseteq Node \X Node \X EdgeType
    /\ wrapped \subseteq Inst
    /\ tagged \subseteq Func \X Nat \X Path
    /\ dirty \subseteq Func \X Nat

\* Where f stands in the module.
Place(f) == CHOOSE n \in 1 .. Len(prog.order) : prog.order[n] = f

\* The calls connectInterprocDependencies has dealt with.
Processed(c) ==
    \/ pc = "done"
    \/ pc \in {"intra", "inter"} /\ Place(prog.owner[c]) < cur
    \/ pc = "inter" /\ prog.owner[c] = F /\ c \notin pending
DirectCall(c) == prog.kind[c] = "call" /\ Callee(c) \in Func

\* A parameter edge between an actual and a formal tree, in the direction
\* connectInTrees and connectOutTrees give it.
ActualEnd(e) == IF e[3] = "PARAMETER_IN" THEN e[1] ELSE e[2]
FormalEnd(e) == IF e[3] = "PARAMETER_IN" THEN e[2] ELSE e[1]
TreeLink(e) ==
    /\ e[3] \in {"PARAMETER_IN", "PARAMETER_OUT"}
    /\ ActualEnd(e)[1] \in {"ain", "aout"}
    /\ FormalEnd(e)[1] \in {"fin", "fout"}

\* Parameter edges between trees pair equal places of an actual and a formal
\* tree of one call, whose argument is the same value in both positions
\* (connectInTrees, connectOutTrees and the by-value map of actual trees).
Lockstep ==
    \A e \in edges :
        LET actual == ActualEnd(e)
            formal == FormalEnd(e)
        IN  TreeLink(e) =>
               /\ actual[5] = formal[4]
               /\ actual[3] = formal[2]
               /\ Callee(actual[2]) = formal[2]
               /\ \/ actual[4] = formal[3]
                  \/ /\ actual[4] \in 1 .. formal[3]
                     /\ Actual(actual[2], actual[4]) = Actual(actual[2], formal[3])

\* A value only flows back through an out tree when the chain is unbroken to
\* a variable of the callee that is stored to: connectOutTrees relies on tags
\* that connectFormalOutTreeWithAddrVars set in another function's turn.
OutFlowHasSource ==
    \A e \in edges :
        e[3] = "PARAMETER_OUT" /\ e[1][1] = "fout" /\ e[2][1] = "aout" =>
            \E v \in Value :
                Stored(v) /\ <<ValNode(v), e[1], "PARAMETER_OUT">> \in edges

\* What the callee of c writes through the parameters it has trees for flows
\* back to the actual-out trees of c.
FlowsBack(c) ==
    \A m \in Joined(c, Callee(c)) :
        m[2] \in TreePrefix(Callee(c)) =>
            \A x \in Written(Callee(c), m[2]) :
                <<FOut(Callee(c), m[2], x[1]), AOut(c, Callee(c), m[1], x[1]),
                  "PARAMETER_OUT">> \in edges

\* What the caller passes enters the callee: every pair of joined trees is
\* linked place by place.
ArgumentsFlowIn ==
    \A c \in Inst :
        DirectCall(c) /\ Processed(c) =>
            \A m \in Joined(c, Callee(c)) : \A p \in Shape(Callee(c), m[2]) :
                <<AIn(c, Callee(c), m[1], p), FIn(Callee(c), m[2], p), "PARAMETER_IN">> \in edges

\* When a callee stands in the module no later than its caller, everything it
\* writes through a parameter flows back to the call.
WriteFlowsBack ==
    \A c \in Inst :
        DirectCall(c) /\ Processed(c) /\ Place(Callee(c)) <= Place(prog.owner[c])
        => FlowsBack(c)

\* Node set and edges agree except at the places where a tree is known to stay
\* out of the node set: return values, arguments after a gap, and what hangs
\* below the roots an indirect call adds.
OnlyKnownStrays ==
    \A e \in edges :
        e[1] \in nodes /\ e[2] \notin nodes =>
            \/ e[2][1] \in {"fin", "fout"} /\ e[2][3] \notin TreePrefix(e[2][2])
            \/ e[2][1] \in {"ain", "aout"} /\ e[2][4] = 0
            \/ /\ e[3] = "PARAMETER_FIELD"
               /\ e[1][1] \in {"ain", "aout"}
               /\ Callee(e[1][2]) = Indirect

\* The construction implements the contract: every edge it adds is justified by
\* the program and the finished graph is complete.
Contract == INSTANCE DependenceContract
                WITH graph <- edges, garbage <- dirty, finished <- (pc = "done")
ImplementsContract == Contract!Spec

=============================================================================
