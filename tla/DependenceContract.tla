------------------------- MODULE DependenceContract -------------------------
(***************************************************************************)
(* What a client may expect of a program dependence graph, whatever the    *)
(* order in which it is put together: the graph only grows, every edge is  *)
(* justified by the program, and when it is finished the edges a client    *)
(* follows across calls are all there.                                     *)
(***************************************************************************)
EXTENDS PDGNodes

CONSTANT HeapGarbage

VARIABLES
    graph,     \* the set of edges
    garbage,   \* the positions of functions whose trees were never given a size
    finished   \* TRUE when the graph is handed to its clients

vars == <<prog, graph, garbage, finished>>

DirectCall(c) == prog.kind[c] = "call" /\ Callee(c) \in Func
Place(f) == CHOOSE n \in 1 .. Len(prog.order) : prog.order[n] = f

\* A variable that has a node and stands for place p of position k of f.
Variable(f, k, p) == FormalAddr(f, k, p) \cap (Inst \cup Func \cup prog.debugged)
WrittenAt(f, k, p) == \E v \in Variable(f, k, p) : Stored(v)

\* The edges between a call, the function it calls directly and its returns.
InvokeJustified(s, d, type) ==
    IF type = "CONTROLDEP_CALLINV" THEN DirectCall(s) /\ Callee(s) = d
    ELSE /\ prog.kind[s] = "ret"
         /\ DirectCall(d)
         /\ Callee(d) = prog.owner[s]

\* Data enters a callee: from the caller's variables to the actual-in tree of
\* a call, on to the same place of a formal-in tree, and on to variables.
InJustified(s, d) ==
    \/ s[1] = "val" /\ d[1] = "ain"
       /\ \/ s[2] = d[2]
          \/ s[2] \in ActualAddr(d[2], d[4], d[5]) /\ (s[2] \in Inst => Before(s[2], d[2]))
    \/ s[1] = "ain" /\ d[1] = "fin"
       /\ s[3] = d[2] /\ s[5] = d[4] /\ Callee(s[2]) = d[2]
       /\ \/ s[4] = d[3]
          \/ 0 \notin {s[4], d[3]} /\ Actual(s[2], s[4]) = Actual(s[2], d[3])
    \/ s[1] = "val" /\ d[1] = "fin" /\ s[2] = d[2] /\ d[4] = Root
    \/ s[1] = "fin" /\ d[1] = "val"
       /\ \E v \in FormalAddr(s[2], s[3], s[4]) :
             v = d[2] \/ <<v, d[2], "DATA_ALIAS">> \in prog.dataDeps

\* Data leaves a callee: from a variable stored to, to the formal-out tree, to
\* the actual-out tree; and whatever the caller keeps there hangs from it.
OutJustified(s, d) ==
    \/ s[1] = "val" /\ d[1] = "fout"
       /\ \/ s[2] = d[2] /\ d[4] = Root
          \/ s[2] \in FormalAddr(d[2], d[3], d[4]) /\ Stored(s[2])
    \/ s[1] = "fout" /\ d[1] = "aout"
       /\ s[2] = d[3] /\ s[4] = d[5] /\ WrittenAt(s[2], s[3], s[4])
       /\ s[3] # 0 /\ d[4] # 0 /\ Actual(d[2], d[4]) = Actual(d[2], s[3])
    \/ s[1] = "aout" /\ d[1] = "fout" /\ s[4] = 0 /\ d[3] = 0 /\ s[5] = d[4]
    \/ s[1] = "val" /\ d[1] = "aout"
       /\ s[2] \in {d[2]} \cup ActualAddr(d[2], d[4], d[5])

\* A guessed callee of a call through a pointer: it has the call's type and a
\* user with a node.
Guessed(c, f) ==
    /\ Callee(c) = Indirect
    /\ <<c, f>> \in prog.matches
    /\ \E u \in prog.uses : u[1] = f /\ u[2] \in Inst \cup Func \cup prog.debugged

\* Place q of a tree hangs below place p.
Hangs(f, k, p, q) == q \in Shape(f, k) \ {Root} /\ p = Parent[q]

\* A field hangs below the place that holds it, in one tree of a function or of
\* a call that may reach the function.
FieldJustified(s, d) ==
    \/ /\ s[1] \in {"fin", "fout"}
       /\ d = <<s[1], s[2], s[3], d[4]>>
       /\ Hangs(s[2], s[3], s[4], d[4])
    \/ /\ s[1] \in {"ain", "aout"}
       /\ d = <<s[1], s[2], s[3], s[4], d[5]>>
       /\ Hangs(s[3], s[4], s[5], d[5])
       /\ Callee(s[2]) = s[3] \/ Guessed(s[2], s[3])

\* An argument and the root of the tree it is given in a call.
Passed(v, tree) == v[1] = "val" /\ tree[5] = Root /\ Actual(tree[2], tree[4]) = v[2]
ArgJustified(s, d, type) ==
    \/ /\ d[1] = "ain" /\ Passed(s, d)
       /\ \/ type = "DATA_ARGPASS_IN" /\ Callee(d[2]) = d[3]
          \/ type = "DATA_ARGPASS_INDIRECT_IN" /\ Guessed(d[2], d[3])
    \/ /\ s[1] = "aout" /\ Passed(d, s)
       /\ \/ type = "DATA_ARGPASS_OUT" /\ Callee(s[2]) = s[3]
          \/ type = "DATA_ARGPASS_INDIRECT_OUT" /\ Guessed(s[2], s[3])

\* What the data dependency pass finds, and who uses a global variable.
DataJustified(s, d, type) ==
    \/ <<s, d, type>> \in prog.dataDeps
    \/ type = "DATA_DEF_USE" /\ s \in Global /\ <<s, d>> \in prog.uses
    \/ type = "DATA_GLOBAL_DEF_USE" /\ <<d, s>> \in prog.inits

Justified(e) ==
    CASE e[3] \in {"CONTROLDEP_CALLINV", "CONTROLDEP_CALLRET", "DATA_RET"}
            -> InvokeJustified(e[1][2], e[2][2], e[3])
      [] e[3] = "CONTROLDEP_ENTRY" -> e[1][2] = prog.owner[e[2][2]]
      [] e[3] = "CONTROLDEP_BR" -> <<e[1][2], e[2][2]>> \in prog.branchDeps
      [] e[3] = "IND_CALL" -> Guessed(e[1][2], e[2][2])
      [] e[3] = "DATA_INDIRECT_RET"
            -> /\ e[1][2] \in RetsOf(e[2][2])
               /\ \E c \in Inst : prog.kind[c] = "call" /\ Guessed(c, e[2][2])
      [] e[3] = "PARAMETER_IN" -> InJustified(e[1], e[2])
      [] e[3] = "PARAMETER_OUT" -> OutJustified(e[1], e[2])
      [] e[3] = "PARAMETER_FIELD" -> FieldJustified(e[1], e[2])
      [] e[3] \in {"DATA_ARGPASS_IN", "DATA_ARGPASS_OUT",
                   "DATA_ARGPASS_INDIRECT_IN", "DATA_ARGPASS_INDIRECT_OUT"}
            -> ArgJustified(e[1], e[2], e[3])
      [] e[3] = "ANNO_GLOBAL" -> e[1][2] \in prog.annotated /\ e[2] = AnnotationsNode
      [] OTHER -> DataJustified(e[1][2], e[2][2], e[3])

\* A direct call is complete when control goes in and out, and each argument
\* with trees on both sides, which those of a variadic callee never have, is
\* linked place by place; what the callee writes is only promised when it
\* stands no later in the module than the caller, and what goes in only where
\* the size of the tree started from zero.
Complete(c) ==
    LET f == Callee(c)
        linked == {k \in TreePrefix(f) : f \notin prog.varArg}
    IN  /\ <<ValNode(c), ValNode(f), "CONTROLDEP_CALLINV">> \in graph
        /\ \A r \in RetsOf(f) :
              /\ <<ValNode(r), ValNode(c), "CONTROLDEP_CALLRET">> \in graph
              /\ <<ValNode(r), ValNode(c), "DATA_RET">> \in graph
        /\ \A k \in linked, p \in Path :
              p \in Shape(f, k) =>
              \E j \in 1 .. k :
                 /\ Actual(c, j) = Actual(c, k)
                 /\ <<f, k>> \notin garbage =>
                       <<AIn(c, f, j, p), FIn(f, k, p), "PARAMETER_IN">> \in graph
                 /\ WrittenAt(f, k, p) /\ Place(f) <= Place(prog.owner[c]) =>
                       <<FOut(f, k, p), AOut(c, f, j, p), "PARAMETER_OUT">> \in graph

\* What a place of a parameter feeds: its variables, and their aliases but for
\* those that stand for the place above.
Fed(f, k, p) ==
    Variable(f, k, p)
    \cup {w \in Inst :
             /\ \E v \in Variable(f, k, p) : <<v, w, "DATA_ALIAS">> \in prog.dataDeps
             /\ p # Root => w \notin FormalAddr(f, k, Parent[p])}

CompleteGraph ==
    /\ \A i \in Inst : <<ValNode(prog.owner[i]), ValNode(i), "CONTROLDEP_ENTRY">> \in graph
    /\ \A c \in Inst : DirectCall(c) => Complete(c)
    /\ \A f \in Func : \A k \in TreePrefix(f) : \A p \in Shape(f, k) :
          \A w \in Fed(f, k, p) : <<FIn(f, k, p), ValNode(w), "PARAMETER_IN">> \in graph

Init == WellTyped(prog) /\ graph = {} /\ garbage = {} /\ finished = FALSE

Next ==
    /\ ~finished
    /\ graph \subseteq graph'
    /\ garbage \subseteq garbage'
    /\ garbage' # garbage => HeapGarbage
    /\ \A e \in graph' : Justified(e)'
    /\ finished' => CompleteGraph'
    /\ UNCHANGED prog

Spec == Init /\ [][Next]_vars

=============================================================================
