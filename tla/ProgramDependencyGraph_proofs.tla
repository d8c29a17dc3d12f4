-------------------- MODULE ProgramDependencyGraph_proofs --------------------
(***************************************************************************)
(* Proofs about the construction, for every set of well-formed programs:   *)
(* its invariants; that node set and edges agree but at the known places;  *)
(* and that the construction implements the contract of its clients.       *)
(***************************************************************************)
EXTENDS ProgramDependencyGraph, NaturalsInduction, WellFoundedInduction, TLAPS

Edge == Node \X Node \X EdgeType

-----------------------------------------------------------------------------
(* The program never changes and stays well typed. *)

ProgOK == prog \in Programs

LEMMA ProgramTyped ==
    ASSUME ProgOK PROVE WellTyped(prog) /\ WellFormed(prog)
BY ProgramsAssumption DEF ProgOK

\* The program text has at least one function, so every loop has a first one.
LEMMA OrderNonEmpty ==
    ASSUME ProgOK
    PROVE  /\ prog.order \in Seq(Func)
           /\ Len(prog.order) \in Nat \ {0}
           /\ \A n \in 1 .. Len(prog.order) : prog.order[n] \in Func
<1>1. prog.order \in Seq(Func)
  BY ProgramTyped DEF WellTyped
<1>2. PICK f \in Func : TRUE
  BY NamesAssumption
<1>3. \E n \in 1 .. Len(prog.order) : prog.order[n] = f
  BY ProgramTyped, <1>2 DEF WellFormed, ListedOnce
<1> QED
  BY <1>1, <1>3

-----------------------------------------------------------------------------
(* Every node and edge the operators build is a node or an edge. *)

LEMMA NodeTyped ==
    /\ \A v \in Inst \cup Global \cup Func : ValNode(v) \in Node
    /\ AnnotationsNode \in Node
    /\ \A f \in Func, k \in Nat, p \in Path : FIn(f, k, p) \in Node /\ FOut(f, k, p) \in Node
    /\ \A c \in Inst, f \in Func, k \in Nat, p \in Path :
          AIn(c, f, k, p) \in Node /\ AOut(c, f, k, p) \in Node
BY DEF Node, ValNode, AnnotationsNode, FIn, FOut, AIn, AOut

LEMMA FormalTreesTyped ==
    ASSUME NEW f \in Func, NEW k \in Nat
    PROVE  FormalTrees(f, k) \subseteq Node /\ FormalFields(f, k) \subseteq Edge
<1>1. \A p \in Below(f, k) : p \in Path /\ Parent[p] \in Path
  BY NamesAssumption DEF Below, Shape
<1>2. FormalTrees(f, k) \subseteq Node
  BY NodeTyped DEF FormalTrees, Shape
<1>3. FormalFields(f, k) \subseteq Edge
  BY <1>1, NodeTyped DEF FormalFields, Edge, EdgeType
<1> QED
  BY <1>2, <1>3

LEMMA ActualTreesTyped ==
    ASSUME NEW c \in Inst, NEW f \in Func, NEW k \in Nat
    PROVE  ActualTrees(c, f, k) \subseteq Node /\ ActualFields(c, f, k) \subseteq Edge
<1>1. \A p \in Below(f, k) : p \in Path /\ Parent[p] \in Path
  BY NamesAssumption DEF Below, Shape
<1>2. ActualTrees(c, f, k) \subseteq Node
  BY NodeTyped DEF ActualTrees, Shape
<1>3. ActualFields(c, f, k) \subseteq Edge
  BY <1>1, NodeTyped DEF ActualFields, Edge, EdgeType
<1> QED
  BY <1>2, <1>3

\* The positions that hold trees are natural numbers.
LEMMA PositionsTyped ==
    ASSUME ProgOK, NEW f \in Func, NEW c \in Inst
    PROVE  /\ prog.arity[f] \in Nat
           /\ Positions(f) \subseteq Nat
           /\ TreePrefix(f) \subseteq Positions(f)
           /\ Built(c, f) \subseteq TreePrefix(f)
           /\ \A k : TreeOf(c, f, k) \subseteq TreePrefix(f)
           /\ CallTrees(c, f) \subseteq TreePrefix(f)
           /\ Reached(f) \subseteq Nat
<1>1. prog.arity[f] \in Nat
  BY ProgramTyped DEF WellTyped
<1>2. Positions(f) \subseteq Nat
  BY <1>1 DEF Positions
<1>3. TreePrefix(f) \subseteq Positions(f)
  BY DEF TreePrefix
<1>4. Built(c, f) \subseteq TreePrefix(f)
  BY DEF Built
<1>5. \A k : TreeOf(c, f, k) \subseteq TreePrefix(f)
  BY <1>4 DEF TreeOf
<1>6. CallTrees(c, f) \subseteq TreePrefix(f)
  BY <1>5 DEF CallTrees
<1>7. Reached(f) \subseteq Nat
  BY <1>2, <1>3 DEF Reached
<1> QED
  BY <1>1, <1>2, <1>3, <1>4, <1>5, <1>6, <1>7

\* The same for a function, with no call in sight.
LEMMA FunctionPositionsTyped ==
    ASSUME ProgOK, NEW f \in Func
    PROVE  /\ Positions(f) \subseteq Nat
           /\ TreePrefix(f) \subseteq Positions(f)
           /\ Reached(f) \subseteq Nat
<1>1. prog.arity[f] \in Nat
  BY ProgramTyped DEF WellTyped
<1> QED
  BY <1>1 DEF Positions, TreePrefix, Reached

LEMMA CallFieldsTyped ==
    ASSUME ProgOK, NEW c \in Inst, NEW f \in Func
    PROVE  CallFields(c, f) \subseteq Edge
BY PositionsTyped, ActualTreesTyped DEF CallFields

\* A value with a node is an instruction, a global or a function.
LEMMA HasNodeTyped ==
    ASSUME nodes \subseteq Node, NEW v, HasNode(v)
    PROVE  v \in Inst \cup Global \cup Func
BY DEF HasNode, ValNode, Node, AnnotationsNode

LEMMA ActualVarEdgesTyped ==
    ASSUME nodes \subseteq Node, NEW c \in Inst, NEW f \in Func, NEW k \in Nat
    PROVE  ActualVarEdges(c, f, k) \subseteq Edge
<1>1. \A x \in ActualVars(c, f, k) :
          x[1] \in Path /\ x[2] \in Inst \cup Global \cup Func
  BY HasNodeTyped DEF ActualVars, Shape
<1>2. \A x \in ActualVars(c, f, k) :
          /\ <<ValNode(x[2]), AIn(c, f, k, x[1]), "PARAMETER_IN">> \in Edge
          /\ <<ValNode(x[2]), AOut(c, f, k, x[1]), "PARAMETER_OUT">> \in Edge
  BY <1>1, NodeTyped DEF Edge, EdgeType
<1> QED
  BY <1>2 DEF ActualVarEdges

LEMMA ArgPassEdgesTyped ==
    ASSUME ProgOK, nodes \subseteq Node, NEW c \in Inst, NEW f \in Func,
           NEW in \in EdgeType, NEW out \in EdgeType
    PROVE  ArgPassEdges(c, f, in, out) \subseteq Edge
<1> DEFINE passed == {k \in 1 .. NumActual(c) : HasNode(Actual(c, k))}
           at(k)  == {<<ValNode(Actual(c, k)), AIn(c, f, j, Root), in>> : j \in TreeOf(c, f, k)}
                     \cup {<<AOut(c, f, j, Root), ValNode(Actual(c, k)), out>> : j \in TreeOf(c, f, k)}
<1>1. \A k \in passed : at(k) \subseteq Edge
  <2> SUFFICES ASSUME NEW k \in passed PROVE at(k) \subseteq Edge
    OBVIOUS
  <2>1. ValNode(Actual(c, k)) \in Node
    BY HasNodeTyped, NodeTyped
  <2>2. \A j \in TreeOf(c, f, k) : AIn(c, f, j, Root) \in Node /\ AOut(c, f, j, Root) \in Node
    BY PositionsTyped, NodeTyped, NamesAssumption
  <2> QED
    BY <2>1, <2>2 DEF Edge
<1>2. ArgPassEdges(c, f, in, out) = UNION {at(k) : k \in passed}
  BY DEF ArgPassEdges
<1> QED
  BY <1>1, <1>2

LEMMA IntraEdgesTyped ==
    ASSUME ProgOK, nodes \subseteq Node, NEW f \in Func, NEW k \in Nat
    PROVE  /\ ControlEdges(f) \subseteq Edge
           /\ FormalInEdges(f, k) \subseteq Edge
           /\ FormalOutEdges(f, k) \subseteq Edge
           /\ Tags(f, k) \subseteq Func \X Nat \X Path
<1>1. ControlEdges(f) \subseteq Edge
  <2>1. prog.branchDeps \subseteq Inst \X Inst
    BY ProgramTyped DEF WellTyped
  <2> QED
    BY <2>1, NodeTyped DEF ControlEdges, InstsOf, Edge, EdgeType
<1>2. \A x \in FormalVars(f, k) :
          x[1] \in Path /\ x[2] \in Inst \cup Global \cup Func
  BY HasNodeTyped DEF FormalVars, Shape
<1>3. FormalInEdges(f, k) \subseteq Edge
  <2>1. \A x \in FormalVars(f, k) : <<FIn(f, k, x[1]), ValNode(x[2]), "PARAMETER_IN">> \in Edge
    BY <1>2, NodeTyped DEF Edge, EdgeType
  <2>2. \A x \in Shape(f, k) \X Inst : <<FIn(f, k, x[1]), ValNode(x[2]), "PARAMETER_IN">> \in Edge
    BY NodeTyped DEF Edge, EdgeType, Shape
  <2> QED
    BY <2>1, <2>2 DEF FormalInEdges
<1>4. \A x \in Written(f, k) :
          x[1] \in Path /\ x[2] \in Inst \cup Global \cup Func
  BY <1>2 DEF Written
<1>5. FormalOutEdges(f, k) \subseteq Edge
  BY <1>4, NodeTyped DEF FormalOutEdges, Edge, EdgeType
<1>6. Tags(f, k) \subseteq Func \X Nat \X Path
  BY <1>4 DEF Tags
<1> QED
  BY <1>1, <1>3, <1>5, <1>6

LEMMA LinkEdgesTyped ==
    ASSUME ProgOK, NEW c \in Inst, NEW f \in Func, NEW j \in Nat, NEW k \in Nat
    PROVE  /\ InvokeEdges(c, f) \subseteq Edge
           /\ InTreeEdges(c, f, j, k) \subseteq Edge
           /\ OutTreeEdges(c, f, j, k) \subseteq Edge
           /\ RetTreeEdges(c, f) \subseteq Edge
<1>1. InvokeEdges(c, f) \subseteq Edge
  BY NodeTyped DEF InvokeEdges, RetsOf, InstsOf, Edge, EdgeType
<1>2. \A i \in Nat : Shape(f, i) \subseteq Path
  BY DEF Shape
<1>3. InTreeEdges(c, f, j, k) \subseteq Edge
  BY <1>2, NodeTyped DEF InTreeEdges, Edge, EdgeType
<1>4. OutTreeEdges(c, f, j, k) \subseteq Edge
  <2>1. \A p \in Shape(f, k) : <<FOut(f, k, p), AOut(c, f, j, p), "PARAMETER_OUT">> \in Edge
    BY <1>2, NodeTyped DEF Edge, EdgeType
  <2> QED
    BY <2>1 DEF OutTreeEdges
<1>5. RetTreeEdges(c, f) \subseteq Edge
  BY <1>2, NodeTyped DEF RetTreeEdges, Edge, EdgeType
<1> QED
  BY <1>1, <1>3, <1>4, <1>5

LEMMA JoinedTyped ==
    ASSUME ProgOK, NEW c \in Inst, NEW f \in Func
    PROVE  \A m \in Joined(c, f) :
              /\ m[1] \in Nat
              /\ m[2] \in Positions(f) /\ m[2] \in Nat
              /\ m[1] \in TreeOf(c, f, m[2])
              /\ NumActual(c) = prog.arity[f]
              /\ HasTree(f, m[2])
BY PositionsTyped DEF Joined

LEMMA CallEdgesTyped ==
    ASSUME ProgOK, nodes \subseteq Node, NEW c \in Inst, NEW f \in Func
    PROVE  CallEdges(c, f) \subseteq Edge
<1>1. CallTrees(c, f) \subseteq Nat
  BY FunctionPositionsTyped, PositionsTyped
<1>2. RootEdges(c, f) \subseteq Edge
  <2>1. \A j \in CallTrees(c, f) :
            /\ <<ValNode(c), AIn(c, f, j, Root), "PARAMETER_IN">> \in Edge
            /\ <<ValNode(c), AOut(c, f, j, Root), "PARAMETER_OUT">> \in Edge
    BY <1>1, NodeTyped, NamesAssumption DEF Edge, EdgeType
  <2> QED
    BY <2>1 DEF RootEdges
<1>3. VarEdges(c, f) \subseteq Edge
  BY <1>1, ActualVarEdgesTyped DEF VarEdges
<1>4. ArgPassEdges(c, f, "DATA_ARGPASS_IN", "DATA_ARGPASS_OUT") \subseteq Edge
  BY ArgPassEdgesTyped DEF EdgeType
<1>5. InvokeEdges(c, f) \subseteq Edge /\ RetTreeEdges(c, f) \subseteq Edge
  BY LinkEdgesTyped
<1>6. TreeEdges(c, f) \subseteq Edge
  BY JoinedTyped, LinkEdgesTyped DEF TreeEdges
<1> QED
  BY <1>2, <1>3, <1>4, <1>5, <1>6 DEF CallEdges

LEMMA IndirectTyped ==
    ASSUME ProgOK, nodes \subseteq Node, NEW c \in Inst, NEW f \in Func
    PROVE  IndirectEdges(c, f) \subseteq Edge /\ IndirectRoots(c, f) \subseteq Node
<1>1. <<ValNode(c), ValNode(f), "IND_CALL">> \in Edge
  BY NodeTyped DEF Edge, EdgeType
<1>2. {<<ValNode(r), ValNode(f), "DATA_INDIRECT_RET">> : r \in RetsOf(f)} \subseteq Edge
  BY NodeTyped DEF Edge, EdgeType, RetsOf, InstsOf
<1>3. ArgPassEdges(c, f, "DATA_ARGPASS_INDIRECT_IN", "DATA_ARGPASS_INDIRECT_OUT") \subseteq Edge
  BY ArgPassEdgesTyped DEF EdgeType
<1>4. IndirectEdges(c, f) \subseteq Edge
  BY <1>1, <1>2, <1>3, CallFieldsTyped DEF IndirectEdges
<1>5. CallTrees(c, f) \subseteq Nat
  BY FunctionPositionsTyped, PositionsTyped
<1>6. IndirectRoots(c, f) \subseteq Node
  BY <1>5, NodeTyped, NamesAssumption DEF IndirectRoots
<1> QED
  BY <1>4, <1>6

-----------------------------------------------------------------------------
(* The type invariant.  It is inductive once it is known that a wrapper only *)
(* exists for a call of a function the module defines.                       *)

WrappedDirect == \A c \in wrapped : Callee(c) \in Func

TInv == ProgOK /\ TypeOK /\ WrappedDirect

LEMMA CurrentFunction ==
    ASSUME TInv PROVE F \in Func
BY OrderNonEmpty DEF TInv, TypeOK, F

LEMMA AdvanceTyped ==
    ASSUME TInv, NEW after \in Phase, Advance(after)
    PROVE  pc' \in Phase /\ cur' \in 1 .. Len(prog.order)
BY OrderNonEmpty DEF TInv, TypeOK, Advance

LEMMA TInvInit ==
    ASSUME Init PROVE TInv
<1>1. ProgOK
  BY DEF Init, ProgOK
<1>2. cur \in 1 .. Len(prog.order)
  BY <1>1, OrderNonEmpty DEF Init
<1> QED
  BY <1>1, <1>2 DEF Init, TInv, TypeOK, WrappedDirect, Phase

LEMMA TInvNext ==
    ASSUME TInv, [Next]_vars PROVE TInv'
<1> USE DEF TInv
<1>1. CASE BuildGlobals
  <2>1. prog.debugged \subseteq Global
    BY ProgramTyped DEF WellTyped
  <2> QED
    BY <1>1, <2>1, NodeTyped DEF BuildGlobals, TypeOK, Phase, ProgOK, WrappedDirect, Callee
<1>2. CASE BuildFunction
  <2>1. F \in Func
    BY CurrentFunction
  <2>2. /\ {ValNode(i) : i \in InstsOf(F)} \cup {ValNode(F)} \subseteq Node
        /\ UNION {FormalTrees(F, k) : k \in TreePrefix(F)} \subseteq Node
    <3>1. TreePrefix(F) \subseteq Nat
      BY <2>1, FunctionPositionsTyped
    <3> QED
      BY <2>1, <3>1, NodeTyped, FormalTreesTyped DEF InstsOf
  <2>3. UNION {FormalFields(F, k) : k \in Positions(F) \cup {0}} \subseteq Edge
    BY <2>1, FunctionPositionsTyped, FormalTreesTyped
  <2>4. dirty' \subseteq Func \X Nat
    <3>1. PICK d \in SUBSET {k \in Positions(F) : HasTree(F, k)} :
              dirty' = dirty \cup {<<F, k>> : k \in d}
      BY <1>2 DEF BuildFunction
    <3> QED
      BY <2>1, <3>1, FunctionPositionsTyped DEF TypeOK
  <2>5. pc' \in Phase /\ cur' \in 1 .. Len(prog.order)
    BY <1>2, AdvanceTyped DEF BuildFunction, Phase
  <2> QED
    BY <1>2, <2>2, <2>3, <2>4, <2>5 DEF BuildFunction, TypeOK, ProgOK, WrappedDirect, Callee, Edge
<1>3. CASE BuildCallWrappers
  <2> DEFINE direct == {c \in CallsOf(F) : Callee(c) \in Func}
  <2>1. direct \subseteq Inst
    BY DEF CallsOf, InstsOf
  <2>2. UNION {CallFields(c, Callee(c)) : c \in direct} \subseteq Edge
    BY <2>1, CallFieldsTyped
  <2>3. pc' \in Phase /\ cur' \in 1 .. Len(prog.order)
    BY <1>3, AdvanceTyped DEF BuildCallWrappers, Phase
  <2>4. /\ wrapped' = wrapped \cup direct
        /\ edges' = edges \cup UNION {CallFields(c, Callee(c)) : c \in direct}
        /\ UNCHANGED <<prog, pending, nodes, tagged, dirty>>
    BY <1>3 DEF BuildCallWrappers
  <2> HIDE DEF direct
  <2>5. TypeOK'
    BY <2>1, <2>2, <2>3, <2>4 DEF TypeOK, Edge
  <2>6. WrappedDirect'
    BY <2>4 DEF WrappedDirect, Callee, direct
  <2> QED
    BY <2>4, <2>5, <2>6 DEF ProgOK
<1>4. CASE BuildGlobalAnnotations
  <2>1. prog.annotated \subseteq Global \cup Func
    BY ProgramTyped DEF WellTyped
  <2>2. {<<ValNode(v), AnnotationsNode, "ANNO_GLOBAL">> : v \in prog.annotated} \subseteq Edge
    BY <2>1, NodeTyped DEF Edge, EdgeType
  <2> QED
    BY <1>4, <2>2, NodeTyped
    DEF BuildGlobalAnnotations, TypeOK, Phase, ProgOK, WrappedDirect, Callee, Edge
<1>5. CASE AddDataDependencies
  <2>1. /\ prog.dataDeps \subseteq Inst \X (Inst \cup Func) \X EdgeType
        /\ prog.uses \subseteq (Global \cup Func) \X (Inst \cup Global \cup Func)
        /\ prog.inits \subseteq Global \X Global
    BY ProgramTyped DEF WellTyped, DataDepType, EdgeType
  <2>2. {<<ValNode(d[1]), ValNode(d[2]), d[3]>> : d \in prog.dataDeps} \subseteq Edge
    BY <2>1, NodeTyped DEF Edge
  <2>3. {<<ValNode(u[1]), ValNode(u[2]), "DATA_DEF_USE">> :
             u \in {w \in prog.uses : w[1] \in Global /\ HasNode(w[1]) /\ HasNode(w[2])}}
        \subseteq Edge
    BY <2>1, NodeTyped DEF Edge, EdgeType
  <2>4. {<<ValNode(u[2]), ValNode(u[1]), "DATA_GLOBAL_DEF_USE">> :
             u \in {w \in prog.inits : HasNode(w[1]) /\ HasNode(w[2])}} \subseteq Edge
    BY <2>1, NodeTyped DEF Edge, EdgeType
  <2>5. edges' \subseteq Edge
    BY <1>5, <2>2, <2>3, <2>4 DEF AddDataDependencies, TypeOK, Edge
  <2> QED
    BY <1>5, <2>5 DEF AddDataDependencies, TypeOK, Phase, ProgOK, WrappedDirect, Callee, Edge
<1>6. CASE ConnectIntra
  <2>1. F \in Func
    BY CurrentFunction
  <2>2. nodes \subseteq Node /\ TreePrefix(F) \subseteq Nat /\ Reached(F) \subseteq Nat
    BY <2>1, FunctionPositionsTyped DEF TypeOK
  <2>3. /\ {<<ValNode(F), FIn(F, k, Root), "PARAMETER_IN">> : k \in TreePrefix(F)} \subseteq Edge
        /\ {<<ValNode(F), FOut(F, k, Root), "PARAMETER_OUT">> : k \in TreePrefix(F)} \subseteq Edge
    <3>1. \A k \in TreePrefix(F) :
              /\ <<ValNode(F), FIn(F, k, Root), "PARAMETER_IN">> \in Edge
              /\ <<ValNode(F), FOut(F, k, Root), "PARAMETER_OUT">> \in Edge
      BY <2>1, <2>2, NodeTyped, NamesAssumption DEF Edge, EdgeType
    <3> QED
      BY <3>1
  <2>4. ControlEdges(F) \subseteq Edge
    BY <2>1, <2>2, IntraEdgesTyped
  <2>5. UNION {FormalInEdges(F, k) \cup FormalOutEdges(F, k) : k \in Reached(F)} \subseteq Edge
    BY <2>1, <2>2, IntraEdgesTyped
  <2>6. UNION {Tags(F, k) : k \in Reached(F)} \subseteq Func \X Nat \X Path
    BY <2>1, <2>2, IntraEdgesTyped
  <2>7. edges' \subseteq Edge
    BY <1>6, <2>3, <2>4, <2>5 DEF ConnectIntra, TypeOK, Edge
  <2>8. CallsOf(F) \subseteq Inst
    BY DEF CallsOf, InstsOf
  <2> QED
    BY <1>6, <2>6, <2>7, <2>8 DEF ConnectIntra, TypeOK, Phase, ProgOK, WrappedDirect, Callee, Edge
<1>7. ASSUME NEW c \in Inst, ConnectCall(c) PROVE TInv'
  <2>1. Callee(c) \in Func
    BY <1>7 DEF ConnectCall, WrappedDirect
  <2>2. nodes \subseteq Node
    BY DEF TypeOK
  <2>3. UNION {ActualTrees(c, Callee(c), m[1]) : m \in Joined(c, Callee(c))} \subseteq Node
    BY <2>1, JoinedTyped, ActualTreesTyped
  <2>4. CallEdges(c, Callee(c)) \subseteq Edge
    BY <2>1, <2>2, CallEdgesTyped
  <2> QED
    BY <1>7, <2>3, <2>4 DEF ConnectCall, TypeOK, ProgOK, WrappedDirect, Callee, Edge
<1>8. ASSUME NEW c \in Inst, ConnectIndirect(c) PROVE TInv'
  <2>1. nodes \subseteq Node /\ Candidates(c) \subseteq Func
    BY DEF TypeOK, Candidates
  <2>2. UNION {IndirectEdges(c, f) : f \in Candidates(c)} \subseteq Edge
    BY <2>1, IndirectTyped
  <2>3. UNION {IndirectRoots(c, f) : f \in Candidates(c)} \subseteq Node
    BY <2>1, IndirectTyped
  <2> QED
    BY <1>8, <2>2, <2>3 DEF ConnectIndirect, TypeOK, ProgOK, WrappedDirect, Callee, Edge
<1>9. ASSUME NEW c \in Inst, SkipCall(c) PROVE TInv'
  BY <1>9 DEF SkipCall, state, TypeOK, ProgOK, WrappedDirect, Callee
<1>10. CASE LeaveFunction
  <2>1. cur' \in 1 .. Len(prog.order)
    BY <1>10, OrderNonEmpty DEF LeaveFunction, TypeOK
  <2> QED
    BY <1>10, <2>1 DEF LeaveFunction, state, TypeOK, Phase, ProgOK, WrappedDirect, Callee
<1>11. CASE UNCHANGED vars
  BY <1>11 DEF vars, state, TypeOK, ProgOK, WrappedDirect, Callee
<1> QED
  BY <1>1, <1>2, <1>3, <1>4, <1>5, <1>6, <1>7, <1>8, <1>9, <1>10, <1>11 DEF Next, Done

\* Whatever the program, the construction keeps its state well typed: every
\* edge joins nodes the program can have, the loop over the functions never
\* leaves the module, and the function it stands on is defined there.
THEOREM TypeCorrect == Spec => []TypeOK
<1>1. Init => TInv
  BY TInvInit
<1>2. TInv /\ [Next]_vars => TInv'
  BY TInvNext
<1>3. TInv => TypeOK
  BY DEF TInv
<1> QED
  BY <1>1, <1>2, <1>3, PTL DEF Spec

-----------------------------------------------------------------------------
(* Links between trees.  Only connectCallerAndCallee makes them: no other    *)
(* edge joins an actual to a formal tree in that direction.                  *)

LEMMA ValueEdgeIsNoLink ==
    \A v, n, t : ~TreeLink(<<ValNode(v), n, t>>) /\ ~TreeLink(<<n, ValNode(v), t>>)
BY DEF TreeLink, ActualEnd, FormalEnd, ValNode

LEMMA EdgeFromValueIsNoLink ==
    ASSUME NEW e, NEW v, NEW n, NEW t, e = <<ValNode(v), n, t>>
    PROVE  ~TreeLink(e)
BY ValueEdgeIsNoLink

NoLinkIn(S) == \A e \in S : ~TreeLink(e)

LEMMA FieldsAreNoLinks ==
    \A c, f, k : NoLinkIn(FormalFields(f, k)) /\ NoLinkIn(ActualFields(c, f, k))
BY DEF NoLinkIn, TreeLink, FormalFields, ActualFields

LEMMA CallFieldsAreNoLinks ==
    \A c, f : NoLinkIn(CallFields(c, f))
BY FieldsAreNoLinks DEF NoLinkIn, CallFields

LEMMA ArgPassEdgesAreNoLinks ==
    \A c, f, in, out : NoLinkIn(ArgPassEdges(c, f, in, out))
<1> TAKE c, f, in, out
<1> DEFINE at(k) == {<<ValNode(Actual(c, k)), AIn(c, f, j, Root), in>> : j \in TreeOf(c, f, k)}
                    \cup {<<AOut(c, f, j, Root), ValNode(Actual(c, k)), out>> : j \in TreeOf(c, f, k)}
<1>1. \A k : NoLinkIn(at(k))
  BY ValueEdgeIsNoLink DEF NoLinkIn
<1>2. ArgPassEdges(c, f, in, out) = UNION {at(k) : k \in {k \in 1 .. NumActual(c) : HasNode(Actual(c, k))}}
  BY DEF ArgPassEdges
<1> QED
  BY <1>1, <1>2 DEF NoLinkIn

LEMMA IntraEdgesAreNoLinks ==
    \A f, k : /\ NoLinkIn(ControlEdges(f))
              /\ NoLinkIn(FormalInEdges(f, k))
              /\ NoLinkIn(FormalOutEdges(f, k))
<1> TAKE f, k
<1>1. NoLinkIn(ControlEdges(f))
  BY ValueEdgeIsNoLink DEF NoLinkIn, ControlEdges
<1>2. NoLinkIn(FormalInEdges(f, k))
  <2>1. \A x : ~TreeLink(<<FIn(f, k, x[1]), ValNode(x[2]), "PARAMETER_IN">>)
    BY ValueEdgeIsNoLink
  <2> QED
    BY <2>1 DEF NoLinkIn, FormalInEdges
<1>3. NoLinkIn(FormalOutEdges(f, k))
  BY ValueEdgeIsNoLink DEF NoLinkIn, FormalOutEdges
<1> QED
  BY <1>1, <1>2, <1>3

LEMMA CallEdgesAreNoLinks ==
    \A c, f : /\ NoLinkIn(RootEdges(c, f))
              /\ NoLinkIn(VarEdges(c, f))
              /\ NoLinkIn(InvokeEdges(c, f))
<1> TAKE c, f
<1>1. NoLinkIn(RootEdges(c, f)) /\ NoLinkIn(InvokeEdges(c, f))
  BY ValueEdgeIsNoLink DEF NoLinkIn, RootEdges, InvokeEdges
<1>2. \A k : NoLinkIn(ActualVarEdges(c, f, k))
  BY ValueEdgeIsNoLink DEF NoLinkIn, ActualVarEdges
<1>3. NoLinkIn(VarEdges(c, f))
  BY <1>2 DEF NoLinkIn, VarEdges
<1> QED
  BY <1>1, <1>3

LEMMA IndirectEdgesAreNoLinks ==
    \A c, f : NoLinkIn(IndirectEdges(c, f))
BY ValueEdgeIsNoLink, CallFieldsAreNoLinks, ArgPassEdgesAreNoLinks DEF NoLinkIn, IndirectEdges

\* How a link comes about: a joined pair of trees of a direct call, linked at
\* a place and, on the way out, a place that is tagged as written.
Linked(e, c, f, m, p) ==
    \/ /\ m = <<0, 0>> \/ m \in Joined(c, f)
       /\ e = <<AIn(c, f, m[1], p), FIn(f, m[2], p), "PARAMETER_IN">>
    \/ /\ m \in Joined(c, f)
       /\ e = <<FOut(f, m[2], p), AOut(c, f, m[1], p), "PARAMETER_OUT">>
       /\ <<f, m[2], p>> \in tagged

LinkInv ==
    \A e \in edges :
        TreeLink(e) =>
            \E c \in Inst, p \in Path : \E m \in {<<0, 0>>} \cup Joined(c, Callee(c)) :
                Callee(c) \in Func /\ Linked(e, c, Callee(c), m, p)

LEMMA NewLinks ==
    ASSUME NEW c \in Inst, NEW e \in CallEdges(c, Callee(c)), Callee(c) \in Func, TreeLink(e)
    PROVE  \E p \in Path : \E m \in {<<0, 0>>} \cup Joined(c, Callee(c)) :
              Linked(e, c, Callee(c), m, p)
<1> DEFINE f == Callee(c)
<1>1. e \in TreeEdges(c, f) \/ e \in RetTreeEdges(c, f)
  BY CallEdgesAreNoLinks, ArgPassEdgesAreNoLinks DEF CallEdges, NoLinkIn
<1>2. CASE e \in TreeEdges(c, f)
  <2>1. PICK m \in Joined(c, f) : e \in InTreeEdges(c, f, m[1], m[2]) \cup OutTreeEdges(c, f, m[1], m[2])
    BY <1>2 DEF TreeEdges
  <2>2. CASE e \in InTreeEdges(c, f, m[1], m[2])
    BY <2>1, <2>2 DEF InTreeEdges, Linked, Shape
  <2>3. CASE e \in OutTreeEdges(c, f, m[1], m[2])
    BY <2>1, <2>3 DEF OutTreeEdges, Linked, Shape
  <2> QED
    BY <2>1, <2>2, <2>3
<1>3. CASE e \in RetTreeEdges(c, f)
  <2>1. PICK p \in Shape(f, 0) : \/ e = <<AIn(c, f, 0, p), FIn(f, 0, p), "PARAMETER_IN">>
                                 \/ e = <<AOut(c, f, 0, p), FOut(f, 0, p), "PARAMETER_OUT">>
    BY <1>3 DEF RetTreeEdges
  <2>2. e # <<AOut(c, f, 0, p), FOut(f, 0, p), "PARAMETER_OUT">>
    BY DEF TreeLink, ActualEnd, FormalEnd, AOut, FOut
  <2>3. Linked(e, c, f, <<0, 0>>, p) /\ p \in Path
    BY <2>1, <2>2 DEF Linked, Shape
  <2> QED
    BY <2>3
<1> QED
  BY <1>1, <1>2, <1>3

\* The program is fixed, so everything read off it alone is too.
LEMMA ProgramFixed ==
    ASSUME prog' = prog
    PROVE  /\ \A c : Callee(c)' = Callee(c)
           /\ \A c, f : Joined(c, f)' = Joined(c, f)
           /\ \A f : TreePrefix(f)' = TreePrefix(f) /\ Reached(f)' = Reached(f)
           /\ \A v : Stored(v)' = Stored(v)
<1>1. \A c : Callee(c)' = Callee(c)
  BY DEF Callee
<1>2. \A f, k : Shape(f, k)' = Shape(f, k) /\ HasTree(f, k)' = HasTree(f, k)
  BY DEF Shape, HasTree
<1>3. \A f : Positions(f)' = Positions(f)
  BY DEF Positions
<1>4. \A f : TreePrefix(f)' = TreePrefix(f)
  BY <1>2, <1>3 DEF TreePrefix
<1>5. \A f : Reached(f)' = Reached(f)
  BY <1>3, <1>4 DEF Reached
<1>6. \A c, f : Built(c, f)' = Built(c, f)
  BY <1>4 DEF Built
<1>7. \A c, k : Actual(c, k)' = Actual(c, k) /\ NumActual(c)' = NumActual(c)
  BY DEF Actual, NumActual
<1>8. \A c, f, k : TreeOf(c, f, k)' = TreeOf(c, f, k)
  BY <1>6, <1>7 DEF TreeOf
<1>9. \A c, f : Joined(c, f)' = Joined(c, f)
  BY <1>2, <1>3, <1>7, <1>8 DEF Joined
<1>10. \A v : Stored(v)' = Stored(v)
  BY DEF Stored
<1> QED
  BY <1>1, <1>4, <1>5, <1>9, <1>10

\* Links stay justified as long as tags are kept and new edges are no links or
\* justified ones.
LEMMA LinksKept ==
    ASSUME LinkInv, prog' = prog, tagged \subseteq tagged',
           \A e \in edges' \ edges : ~TreeLink(e)
    PROVE  LinkInv'
<1>1. \A e, c, f, m, p : Linked(e, c, f, m, p) => Linked(e, c, f, m, p)'
  BY ProgramFixed DEF Linked
<1>2. \A e : TreeLink(e)' <=> TreeLink(e)
  BY DEF TreeLink, ActualEnd, FormalEnd
<1> QED
  BY <1>1, <1>2, ProgramFixed DEF LinkInv

LEMMA LinkInvNext ==
    ASSUME TInv, LinkInv, [Next]_vars PROVE LinkInv'
<1>1. CASE BuildGlobals
  BY <1>1, LinksKept DEF BuildGlobals
<1>2. CASE BuildFunction
  <2>1. \A e \in edges' \ edges : \E k : e \in FormalFields(F, k)
    BY <1>2 DEF BuildFunction
  <2> QED
    BY <1>2, <2>1, FieldsAreNoLinks, LinksKept DEF BuildFunction, NoLinkIn
<1>3. CASE BuildCallWrappers
  <2>1. \A e \in edges' \ edges : \E c : e \in CallFields(c, Callee(c))
    BY <1>3 DEF BuildCallWrappers
  <2> QED
    BY <1>3, <2>1, CallFieldsAreNoLinks, LinksKept DEF BuildCallWrappers, NoLinkIn
<1>4. CASE BuildGlobalAnnotations
  <2>1. \A e \in edges' \ edges : ~TreeLink(e)
    <3> TAKE e \in edges' \ edges
    <3>1. PICK v : e = <<ValNode(v), AnnotationsNode, "ANNO_GLOBAL">>
      BY <1>4 DEF BuildGlobalAnnotations
    <3> QED
      BY <3>1, EdgeFromValueIsNoLink
  <2> QED
    BY <1>4, <2>1, LinksKept DEF BuildGlobalAnnotations
<1>5. CASE AddDataDependencies
  <2>1. \A e \in edges' \ edges : ~TreeLink(e)
    <3> TAKE e \in edges' \ edges
    <3>1. PICK v, n, t : e = <<ValNode(v), n, t>>
      BY <1>5 DEF AddDataDependencies
    <3> QED
      BY <3>1, EdgeFromValueIsNoLink
  <2> QED
    BY <1>5, <2>1, LinksKept DEF AddDataDependencies
<1>6. CASE ConnectIntra
  <2>1. \A e \in edges' \ edges :
           \/ e \in ControlEdges(F)
           \/ \E n, t : e = <<ValNode(F), n, t>>
           \/ \E k : e \in FormalInEdges(F, k) \/ e \in FormalOutEdges(F, k)
    BY <1>6 DEF ConnectIntra
  <2>2. \A e \in edges' \ edges : ~TreeLink(e)
    <3> TAKE e \in edges' \ edges
    <3>1. CASE e \in ControlEdges(F) \/ \E k : e \in FormalInEdges(F, k) \/ e \in FormalOutEdges(F, k)
      BY <3>1, IntraEdgesAreNoLinks DEF NoLinkIn
    <3>2. CASE \E n, t : e = <<ValNode(F), n, t>>
      BY <3>2, EdgeFromValueIsNoLink
    <3> QED
      BY <2>1, <3>1, <3>2
  <2> QED
    BY <1>6, <2>2, LinksKept DEF ConnectIntra
<1>7. ASSUME NEW c \in Inst, ConnectCall(c) PROVE LinkInv'
  <2>1. Callee(c) \in Func
    BY <1>7 DEF ConnectCall, TInv, WrappedDirect
  <2>2. /\ edges' = edges \cup CallEdges(c, Callee(c))
        /\ prog' = prog
        /\ tagged' = tagged
    BY <1>7 DEF ConnectCall
  <2>3. \A e, d, f, m, p : Linked(e, d, f, m, p) => Linked(e, d, f, m, p)'
    BY <2>2, ProgramFixed DEF Linked
  <2>4. \A e \in edges' : TreeLink(e) =>
           \E d \in Inst, p \in Path : \E m \in {<<0, 0>>} \cup Joined(d, Callee(d)) :
              Callee(d) \in Func /\ Linked(e, d, Callee(d), m, p)
    BY <2>1, <2>2, NewLinks DEF LinkInv
  <2>5. \A e : TreeLink(e)' <=> TreeLink(e)
    BY DEF TreeLink, ActualEnd, FormalEnd
  <2> QED
    BY <2>2, <2>3, <2>4, <2>5, ProgramFixed DEF LinkInv
<1>8. ASSUME NEW c \in Inst, ConnectIndirect(c) PROVE LinkInv'
  <2>1. \A e \in edges' \ edges : \E f : e \in IndirectEdges(c, f)
    BY <1>8 DEF ConnectIndirect
  <2> QED
    BY <1>8, <2>1, IndirectEdgesAreNoLinks, LinksKept DEF ConnectIndirect, NoLinkIn
<1>9. CASE UNCHANGED <<prog, state>>
  BY <1>9, LinksKept DEF state
<1>10. ASSUME NEW c \in Inst, SkipCall(c) PROVE LinkInv'
  BY <1>9, <1>10 DEF SkipCall
<1>11. CASE LeaveFunction \/ UNCHANGED vars
  BY <1>9, <1>11 DEF LeaveFunction, vars
<1> QED
  BY <1>1, <1>2, <1>3, <1>4, <1>5, <1>6, <1>7, <1>8, <1>10, <1>11 DEF Next, Done

\* Position j of a call is given the first tree made for its value, which is
\* that of an earlier position whenever k has no tree of its own.
LEMMA TreeOfIsEarlier ==
    ASSUME ProgOK, NEW c \in Inst, NEW f \in Func, NEW k \in Positions(f),
           NEW j \in TreeOf(c, f, k)
    PROVE  j \in 1 .. k /\ Actual(c, j) = Actual(c, k)
<1>1. /\ prog.arity[f] \in Nat
      /\ j \in Built(c, f) /\ j \in TreePrefix(f)
      /\ Actual(c, j) = Actual(c, k)
      /\ \A i \in Built(c, f) : Actual(c, i) = Actual(c, k) => j <= i
  BY PositionsTyped DEF TreeOf
<1>2. f \notin prog.varArg /\ Built(c, f) = TreePrefix(f)
  BY <1>1 DEF Built
<1>3. CASE k \in Built(c, f)
  BY <1>1, <1>3 DEF Positions, TreePrefix
<1>4. CASE k \notin Built(c, f)
  <2>1. j \in 1 .. prog.arity[f] /\ k \in 1 .. prog.arity[f] /\ \A i \in 1 .. j : HasTree(f, i)
    BY <1>1 DEF TreePrefix, Positions
  <2>2. \E i \in 1 .. k : ~HasTree(f, i)
    BY <1>2, <1>4 DEF TreePrefix
  <2>3. j < k
    BY <1>1, <2>1, <2>2
  <2> QED
    BY <1>1, <2>1, <2>3
<1> QED
  BY <1>3, <1>4

\* Links pair equal places of trees of one call, whatever the program.
LEMMA LinksAreLockstep ==
    ASSUME TInv, LinkInv PROVE Lockstep
<1> SUFFICES ASSUME NEW e \in edges, TreeLink(e)
             PROVE  LET actual == ActualEnd(e)
                        formal == FormalEnd(e)
                    IN  /\ actual[5] = formal[4]
                        /\ actual[3] = formal[2]
                        /\ Callee(actual[2]) = formal[2]
                        /\ \/ actual[4] = formal[3]
                           \/ /\ actual[4] \in 1 .. formal[3]
                              /\ Actual(actual[2], actual[4]) = Actual(actual[2], formal[3])
  BY DEF Lockstep
<1>0. PICK c \in Inst, p \in Path : \E m \in {<<0, 0>>} \cup Joined(c, Callee(c)) :
          Callee(c) \in Func /\ Linked(e, c, Callee(c), m, p)
  BY DEF LinkInv
<1>1. PICK m \in {<<0, 0>>} \cup Joined(c, Callee(c)) :
          Callee(c) \in Func /\ Linked(e, c, Callee(c), m, p)
  BY <1>0
<1>2. /\ ActualEnd(e) = AIn(c, Callee(c), m[1], p) \/ ActualEnd(e) = AOut(c, Callee(c), m[1], p)
      /\ FormalEnd(e) = FIn(Callee(c), m[2], p) \/ FormalEnd(e) = FOut(Callee(c), m[2], p)
  BY <1>1 DEF Linked, ActualEnd, FormalEnd
<1>3. m[1] = m[2] \/ (m[1] \in 1 .. m[2] /\ Actual(c, m[1]) = Actual(c, m[2]))
  BY <1>1, JoinedTyped, TreeOfIsEarlier DEF TInv
<1> QED
  BY <1>1, <1>2, <1>3 DEF AIn, AOut, FIn, FOut

\* connectInTrees and connectOutTrees only ever join an actual and a formal
\* tree of one call, place by place, at positions that pass the same value.
THEOREM LockstepHolds == Spec => []Lockstep
<1>1. Init => TInv /\ LinkInv
  BY TInvInit DEF Init, LinkInv
<1>2. TInv /\ LinkInv /\ [Next]_vars => (TInv /\ LinkInv)'
  BY TInvNext, LinkInvNext
<1>3. TInv /\ LinkInv => Lockstep
  BY LinksAreLockstep
<1> QED
  BY <1>1, <1>2, <1>3, PTL DEF Spec

-----------------------------------------------------------------------------
(* The way out.  A tag stands for a variable that is stored to and has its   *)
(* edge to the formal-out tree; tags and edges are only ever added.          *)

TagInv ==
    \A t \in tagged :
        \E v \in Value :
            Stored(v) /\ <<ValNode(v), FOut(t[1], t[2], t[3]), "PARAMETER_OUT">> \in edges

LEMMA TagsKept ==
    ASSUME TagInv, prog' = prog, tagged' = tagged, edges \subseteq edges'
    PROVE  TagInv'
BY ProgramFixed DEF TagInv

\* No step takes an edge away.
LEMMA EdgesGrow ==
    ASSUME [Next]_vars PROVE prog' = prog /\ edges \subseteq edges'
<1>1. CASE UNCHANGED vars
  BY <1>1 DEF vars, state
<1>2. CASE BuildGlobals \/ BuildFunction \/ BuildGlobalAnnotations
  BY <1>2 DEF BuildGlobals, BuildFunction, BuildGlobalAnnotations
<1>3. CASE BuildCallWrappers
  BY <1>3 DEF BuildCallWrappers
<1>4. CASE AddDataDependencies
  BY <1>4 DEF AddDataDependencies
<1>5. CASE ConnectIntra
  BY <1>5 DEF ConnectIntra
<1>6. ASSUME NEW c \in Inst, ConnectCall(c) \/ ConnectIndirect(c) \/ SkipCall(c)
      PROVE  prog' = prog /\ edges \subseteq edges'
  BY <1>6 DEF ConnectCall, ConnectIndirect, SkipCall, state
<1>7. CASE LeaveFunction \/ Done
  BY <1>7 DEF LeaveFunction, Done, vars, state
<1> QED
  BY <1>1, <1>2, <1>3, <1>4, <1>5, <1>6, <1>7 DEF Next

\* Only connectFormalOutTreeWithAddrVars sets a tag.
LEMMA TagsGrow ==
    ASSUME [Next]_vars
    PROVE  tagged' = tagged \/ (ConnectIntra /\ tagged \subseteq tagged')
<1>1. CASE ConnectIntra
  BY <1>1 DEF ConnectIntra
<1>2. CASE UNCHANGED vars
  BY <1>2 DEF vars, state
<1>3. CASE \/ BuildGlobals \/ BuildFunction \/ BuildCallWrappers \/ BuildGlobalAnnotations
           \/ AddDataDependencies \/ LeaveFunction \/ Done
  BY <1>3 DEF BuildGlobals, BuildFunction, BuildCallWrappers, BuildGlobalAnnotations,
              AddDataDependencies, LeaveFunction, Done, vars, state
<1>4. ASSUME NEW c \in Inst, ConnectCall(c) \/ ConnectIndirect(c) \/ SkipCall(c)
      PROVE  tagged' = tagged
  BY <1>4 DEF ConnectCall, ConnectIndirect, SkipCall, state
<1> QED
  BY <1>1, <1>2, <1>3, <1>4 DEF Next

LEMMA TagInvNext ==
    ASSUME TagInv, [Next]_vars PROVE TagInv'
<1>1. prog' = prog /\ edges \subseteq edges'
  BY EdgesGrow
<1>2. CASE tagged' = tagged
  BY <1>1, <1>2, TagsKept
<1>3. CASE ConnectIntra
  <2> SUFFICES ASSUME NEW t \in tagged'
               PROVE  \E v \in Value : /\ Stored(v)
                                       /\ <<ValNode(v), FOut(t[1], t[2], t[3]), "PARAMETER_OUT">> \in edges'
    BY <1>1, ProgramFixed DEF TagInv
  <2>1. CASE t \in tagged
    BY <1>1, <2>1 DEF TagInv
  <2>2. CASE t \notin tagged
    <3>1. PICK k \in Reached(F) : t \in Tags(F, k)
      BY <1>3, <2>2 DEF ConnectIntra
    <3>2. PICK x \in Written(F, k) : t = <<F, k, x[1]>>
      BY <3>1 DEF Tags
    <3>3. <<ValNode(x[2]), FOut(F, k, x[1]), "PARAMETER_OUT">> \in FormalOutEdges(F, k)
      BY <3>2 DEF FormalOutEdges
    <3>4. FormalOutEdges(F, k) \subseteq edges'
      BY <1>3, <3>1 DEF ConnectIntra
    <3>5. x[2] \in Value /\ Stored(x[2])
      BY <3>2 DEF Written, FormalVars
    <3> QED
      BY <3>2, <3>3, <3>4, <3>5
  <2> QED
    BY <2>1, <2>2
<1> QED
  BY <1>2, <1>3, TagsGrow

LEMMA TaggedLinksHaveSource ==
    ASSUME LinkInv, TagInv PROVE OutFlowHasSource
<1> SUFFICES ASSUME NEW e \in edges, e[3] = "PARAMETER_OUT", e[1][1] = "fout", e[2][1] = "aout"
             PROVE  \E v \in Value : Stored(v) /\ <<ValNode(v), e[1], "PARAMETER_OUT">> \in edges
  BY DEF OutFlowHasSource
<1>1. TreeLink(e)
  BY DEF TreeLink, ActualEnd, FormalEnd
<1>2. PICK c \in Inst, p \in Path : \E m \in {<<0, 0>>} \cup Joined(c, Callee(c)) :
          Linked(e, c, Callee(c), m, p)
  BY <1>1 DEF LinkInv
<1>3. PICK m : Linked(e, c, Callee(c), m, p)
  BY <1>2
<1>4. e # <<AIn(c, Callee(c), m[1], p), FIn(Callee(c), m[2], p), "PARAMETER_IN">>
  OBVIOUS
<1>5. /\ e[1] = FOut(Callee(c), m[2], p)
      /\ <<Callee(c), m[2], p>> \in tagged
  BY <1>3, <1>4 DEF Linked
<1> QED
  BY <1>5 DEF TagInv

\* Nothing flows back through an actual-out tree unless the callee stores to a
\* variable that stands for the same place of its formal-out tree.
THEOREM OutFlowSourced == Spec => []OutFlowHasSource
<1>1. Init => TInv /\ LinkInv /\ TagInv
  BY TInvInit DEF Init, LinkInv, TagInv
<1>2. TInv /\ LinkInv /\ TagInv /\ [Next]_vars => (TInv /\ LinkInv /\ TagInv)'
  BY TInvNext, LinkInvNext, TagInvNext
<1>3. TInv /\ LinkInv /\ TagInv => OutFlowHasSource
  BY TaggedLinksHaveSource
<1> QED
  BY <1>1, <1>2, <1>3, PTL DEF Spec

-----------------------------------------------------------------------------
(* What a callee writes flows back.  A call is connected after every function *)
(* up to its own has been visited, and a visit leaves all the tags it ever    *)
(* will; from then on the nodes of values, hence what is written, are fixed.  *)

Visited(f) ==
    \/ pc = "done"
    \/ pc \in {"intra", "inter"} /\ Place(f) < cur
    \/ pc = "inter" /\ f = F

VisitInv ==
    /\ pc \in {"globals", "annotations", "data"} => cur = 1
    /\ pc = "inter" => pending \subseteq CallsOf(F)
    /\ \A f \in Func : Visited(f) =>
          \A k \in Reached(f) : Tags(f, k) \subseteq tagged

FlowInv == TInv /\ VisitInv /\ WriteFlowsBack

\* The place of a function is where the module lists it, and nowhere else.
LEMMA PlaceOfFunction ==
    ASSUME ProgOK
    PROVE  /\ \A f \in Func : Place(f) \in 1 .. Len(prog.order) /\ prog.order[Place(f)] = f
           /\ \A n \in 1 .. Len(prog.order) : Place(prog.order[n]) = n
<1>1. \A f \in Func : \E n \in 1 .. Len(prog.order) : prog.order[n] = f
  BY ProgramTyped DEF WellFormed, ListedOnce
<1>2. \A m, n \in 1 .. Len(prog.order) : prog.order[m] = prog.order[n] => m = n
  BY ProgramTyped DEF WellFormed, ListedOnce
<1>3. \A f \in Func : Place(f) \in 1 .. Len(prog.order) /\ prog.order[Place(f)] = f
  BY <1>1 DEF Place
<1> QED
  BY <1>2, <1>3, OrderNonEmpty

LEMMA OwnerTyped ==
    ASSUME ProgOK PROVE \A c \in Inst : prog.owner[c] \in Func
BY ProgramTyped DEF WellTyped

\* Joined trees of a call have the same places, so the size test lets them by.
LEMMA JoinedSameShape ==
    ASSUME ProgOK, NEW c \in Inst, prog.kind[c] = "call", Callee(c) \in Func,
           NEW m \in Joined(c, Callee(c))
    PROVE  /\ Shape(Callee(c), m[1]) = Shape(Callee(c), m[2])
           /\ SameSize(Callee(c), m[1], m[2])
<1> DEFINE f == Callee(c)
<1>1. /\ m[2] \in 1 .. prog.arity[f]
      /\ m[1] \in TreeOf(c, f, m[2])
      /\ HasTree(f, m[2])
  BY JoinedTyped DEF Positions
<1>2. m[1] \in Built(c, f) /\ Actual(c, m[1]) = Actual(c, m[2])
  BY <1>1 DEF TreeOf
<1>3. f \notin prog.varArg /\ m[1] \in TreePrefix(f)
  BY <1>2 DEF Built
<1>4. m[1] \in 1 .. prog.arity[f] /\ HasTree(f, m[1])
  <2>1. prog.arity[f] \in Nat
    BY FunctionPositionsTyped, ProgramTyped DEF WellTyped
  <2> QED
    BY <1>3, <2>1 DEF TreePrefix, Positions
<1>5. prog.actual[c][m[1]] = prog.actual[c][m[2]]
  BY <1>2 DEF Actual
<1>6. \/ Shape(f, m[1]) = {}
      \/ Shape(f, m[2]) = {}
      \/ Shape(f, m[1]) = Shape(f, m[2])
  <2>1. MayCall(prog, c, f) /\ CallsFit(prog)
    BY <1>3, ProgramTyped DEF MayCall, Callee, WellFormed
  <2>2. \A k : Shape(f, k) = Places(prog, f, k)
    BY DEF Shape, Places
  <2> QED
    BY <1>1, <1>4, <1>5, <2>1, <2>2 DEF CallsFit
<1> QED
  BY <1>1, <1>4, <1>6 DEF HasTree, SameSize

\* Connecting a call whose callee has been visited lets every write back out.
LEMMA ConnectedFlowsBack ==
    ASSUME TInv, VisitInv, NEW c \in Inst, ConnectCall(c), prog.kind[c] = "call",
           Visited(Callee(c))
    PROVE  /\ Callee(c) \in Func
           /\ \A m \in Joined(c, Callee(c)) :
                 m[2] \in TreePrefix(Callee(c)) =>
                    \A x \in Written(Callee(c), m[2]) :
                       <<FOut(Callee(c), m[2], x[1]), AOut(c, Callee(c), m[1], x[1]),
                         "PARAMETER_OUT">> \in edges'
<1>1. Callee(c) \in Func
  BY DEF ConnectCall, TInv, WrappedDirect
<1> SUFFICES ASSUME NEW m \in Joined(c, Callee(c)), m[2] \in TreePrefix(Callee(c)),
                    NEW x \in Written(Callee(c), m[2])
             PROVE  <<FOut(Callee(c), m[2], x[1]), AOut(c, Callee(c), m[1], x[1]),
                      "PARAMETER_OUT">> \in edges'
  BY <1>1
<1>2. <<Callee(c), m[2], x[1]>> \in tagged
  <2>1. m[2] \in Reached(Callee(c))
    BY DEF Reached
  <2>2. <<Callee(c), m[2], x[1]>> \in Tags(Callee(c), m[2])
    BY DEF Tags
  <2> QED
    BY <1>1, <2>1, <2>2 DEF VisitInv
<1>3. x[1] \in Shape(Callee(c), m[2])
  BY DEF Written, FormalVars
<1>4. SameSize(Callee(c), m[1], m[2])
  BY <1>1, JoinedSameShape DEF TInv
<1>5. <<FOut(Callee(c), m[2], x[1]), AOut(c, Callee(c), m[1], x[1]), "PARAMETER_OUT">>
         \in OutTreeEdges(c, Callee(c), m[1], m[2])
  BY <1>2, <1>3, <1>4 DEF OutTreeEdges
<1>6. OutTreeEdges(c, Callee(c), m[1], m[2]) \subseteq TreeEdges(c, Callee(c))
  BY DEF TreeEdges
<1>7. TreeEdges(c, Callee(c)) \subseteq edges'
  BY DEF ConnectCall, CallEdges
<1> QED
  BY <1>5, <1>6, <1>7

\* From the first visit on no step makes the node of a value.
LEMMA ValuesFixed ==
    ASSUME [Next]_vars, pc \in {"intra", "inter", "done"}
    PROVE  \A v : HasNode(v)' <=> HasNode(v)
<1>1. \A v, c, f, k, p : ValNode(v) # AIn(c, f, k, p) /\ ValNode(v) # AOut(c, f, k, p)
  BY DEF ValNode, AIn, AOut
<1>2. CASE nodes' = nodes
  BY <1>2 DEF HasNode, ValNode
<1>3. ASSUME NEW c \in Inst, ConnectCall(c)
      PROVE  \A v : HasNode(v)' <=> HasNode(v)
  <2>1. \A n \in nodes' \ nodes : \E f, k, p : n = AIn(c, f, k, p) \/ n = AOut(c, f, k, p)
    BY <1>3 DEF ConnectCall, ActualTrees
  <2>2. nodes \subseteq nodes'
    BY <1>3 DEF ConnectCall
  <2> QED
    BY <1>1, <2>1, <2>2 DEF HasNode, ValNode
<1>4. ASSUME NEW c \in Inst, ConnectIndirect(c)
      PROVE  \A v : HasNode(v)' <=> HasNode(v)
  <2>1. \A n \in nodes' \ nodes : \E f, k, p : n = AIn(c, f, k, p) \/ n = AOut(c, f, k, p)
    BY <1>4 DEF ConnectIndirect, IndirectRoots
  <2>2. nodes \subseteq nodes'
    BY <1>4 DEF ConnectIndirect
  <2> QED
    BY <1>1, <2>1, <2>2 DEF HasNode, ValNode
<1>5. ASSUME NEW c \in Inst, SkipCall(c) PROVE nodes' = nodes
  BY <1>5 DEF SkipCall, state
<1>6. CASE ConnectIntra \/ LeaveFunction \/ Done \/ UNCHANGED vars
  BY <1>2, <1>6 DEF ConnectIntra, LeaveFunction, Done, vars, state
<1>7. ~(BuildGlobals \/ BuildFunction \/ BuildCallWrappers \/ BuildGlobalAnnotations \/ AddDataDependencies)
  BY DEF BuildGlobals, BuildFunction, BuildCallWrappers, BuildGlobalAnnotations, AddDataDependencies
<1> QED
  BY <1>2, <1>3, <1>4, <1>5, <1>6, <1>7 DEF Next

\* Then what is written through the trees is fixed as well.
LEMMA WrittenFixed ==
    ASSUME prog' = prog, \A v : HasNode(v)' <=> HasNode(v)
    PROVE  \A f, k : Written(f, k)' = Written(f, k) /\ Tags(f, k)' = Tags(f, k)
<1>1. \A f, k, p : Shape(f, k)' = Shape(f, k) /\ FormalAddr(f, k, p)' = FormalAddr(f, k, p)
  BY DEF Shape, FormalAddr, Value
<1>2. \A f, k : FormalVars(f, k)' = FormalVars(f, k)
  BY <1>1 DEF FormalVars, Value
<1>3. \A f, k : Written(f, k)' = Written(f, k)
  BY <1>2, ProgramFixed DEF Written
<1>4. \A f, k : Tags(f, k)' = Tags(f, k)
  BY <1>3 DEF Tags
<1> QED
  BY <1>3, <1>4

LEMMA FlowsKept ==
    ASSUME prog' = prog, edges \subseteq edges', \A v : HasNode(v)' <=> HasNode(v)
    PROVE  \A c : FlowsBack(c) => FlowsBack(c)'
<1> TAKE c
<1> SUFFICES ASSUME FlowsBack(c) PROVE FlowsBack(c)'
  OBVIOUS
<1>1. /\ Callee(c)' = Callee(c)
      /\ Joined(c, Callee(c))' = Joined(c, Callee(c))
      /\ TreePrefix(Callee(c))' = TreePrefix(Callee(c))
      /\ \A k : Written(Callee(c), k)' = Written(Callee(c), k)
  BY ProgramFixed, WrittenFixed
<1> QED
  BY <1>1 DEF FlowsBack

LEMMA PlaceFixed ==
    ASSUME prog' = prog
    PROVE  /\ \A f : Place(f)' = Place(f)
           /\ \A c : DirectCall(c)' <=> DirectCall(c)
           /\ \A f : CallsOf(f)' = CallsOf(f)
<1>1. \A f : Place(f)' = Place(f)
  BY DEF Place
<1>2. \A c : DirectCall(c)' <=> DirectCall(c)
  BY DEF DirectCall, Callee
<1>3. \A f : CallsOf(f)' = CallsOf(f)
  BY DEF CallsOf, InstsOf
<1> QED
  BY <1>1, <1>2, <1>3

LEMMA VisitInvNext ==
    ASSUME TInv, VisitInv, [Next]_vars PROVE VisitInv'
<1>1. TInv' /\ prog' = prog
  BY TInvNext, EdgesGrow
<1>2. CASE BuildGlobals \/ BuildFunction \/ BuildCallWrappers \/ BuildGlobalAnnotations
  <2>1. /\ pc' \in {"functions", "callsites", "annotations", "data"}
        /\ pc' \in {"globals", "annotations", "data"} => cur' = 1
    BY <1>2 DEF BuildGlobals, BuildFunction, BuildCallWrappers, BuildGlobalAnnotations,
                Advance, VisitInv
  <2> QED
    BY <2>1 DEF VisitInv, Visited
<1>3. CASE AddDataDependencies
  <2>1. pc' = "intra" /\ cur' = 1
    BY <1>3 DEF AddDataDependencies, VisitInv
  <2>2. \A f \in Func : ~(Place(f)' < cur')
    BY <1>1, <2>1, PlaceFixed, PlaceOfFunction DEF TInv
  <2> QED
    BY <2>1, <2>2 DEF VisitInv, Visited
<1>4. CASE pc \in {"intra", "inter", "done"} /\ ~ConnectIntra
  <2>1. tagged' = tagged
    BY <1>4, TagsGrow
  <2>2. \A f, k : Tags(f, k)' = Tags(f, k)
    BY <1>1, <1>4, ValuesFixed, WrittenFixed
  <2>3. pc' \in {"intra", "inter", "done"} /\ (pc' = "inter" => pending' \subseteq CallsOf(F)')
    <3>1. CASE \E c \in Inst : ConnectCall(c) \/ ConnectIndirect(c) \/ SkipCall(c)
      BY <1>1, <3>1, PlaceFixed DEF ConnectCall, ConnectIndirect, SkipCall, NextCall, state, VisitInv, F
    <3>2. CASE LeaveFunction
      BY <3>2 DEF LeaveFunction
    <3>3. CASE Done \/ UNCHANGED vars
      BY <1>1, <1>4, <3>3, PlaceFixed DEF Done, vars, state, VisitInv, F
    <3>4. ~(BuildGlobals \/ BuildFunction \/ BuildCallWrappers \/ BuildGlobalAnnotations \/ AddDataDependencies)
      BY <1>4 DEF BuildGlobals, BuildFunction, BuildCallWrappers, BuildGlobalAnnotations, AddDataDependencies
    <3> QED
      BY <1>4, <3>1, <3>2, <3>3, <3>4 DEF Next
  <2>4. \A f \in Func : Visited(f)' => Visited(f)
    <3>1. CASE \E c \in Inst : ConnectCall(c) \/ ConnectIndirect(c) \/ SkipCall(c)
      BY <1>1, <3>1, PlaceFixed DEF ConnectCall, ConnectIndirect, SkipCall, NextCall, state, Visited, F
    <3>2. CASE LeaveFunction
      <4> SUFFICES ASSUME NEW f \in Func, Visited(f)' PROVE Visited(f)
        OBVIOUS
      <4>1. Place(f)' = Place(f) /\ Place(f) \in 1 .. Len(prog.order) /\ prog.order[Place(f)] = f
        BY <1>1, PlaceFixed, PlaceOfFunction DEF TInv
      <4>2. pc = "inter" /\ cur \in 1 .. Len(prog.order) /\ Len(prog.order) \in Nat
        BY <3>2, OrderNonEmpty DEF LeaveFunction, TInv, TypeOK
      <4>3. Place(f) <= cur
        BY <3>2, <4>1, <4>2 DEF LeaveFunction, Visited
      <4>4. Place(f) = cur => f = F
        BY <4>1 DEF F
      <4> QED
        BY <4>1, <4>2, <4>3, <4>4 DEF Visited
    <3>3. CASE Done \/ UNCHANGED vars
      BY <1>1, <3>3, PlaceFixed DEF Done, vars, state, Visited, F
    <3>4. ~(BuildGlobals \/ BuildFunction \/ BuildCallWrappers \/ BuildGlobalAnnotations \/ AddDataDependencies)
      BY <1>4 DEF BuildGlobals, BuildFunction, BuildCallWrappers, BuildGlobalAnnotations, AddDataDependencies
    <3> QED
      BY <1>4, <3>1, <3>2, <3>3, <3>4 DEF Next
  <2> QED
    BY <1>1, <2>1, <2>2, <2>3, <2>4, ProgramFixed DEF VisitInv
<1>5. CASE ConnectIntra
  <2>1. pc = "intra" /\ pc' = "inter" /\ cur' = cur /\ pending' = CallsOf(F)
        /\ tagged' = tagged \cup UNION {Tags(F, k) : k \in Reached(F)}
    BY <1>5 DEF ConnectIntra
  <2>2. \A f, k : Tags(f, k)' = Tags(f, k)
    BY <1>1, <2>1, ValuesFixed, WrittenFixed
  <2>3. F' = F /\ pending' = CallsOf(F)'
    BY <1>1, <2>1, PlaceFixed DEF F
  <2>4. \A f \in Func : Visited(f)' => Visited(f) \/ f = F
    BY <1>1, <2>1, <2>3, PlaceFixed DEF Visited
  <2>5. \A f \in Func : Visited(f)' => \A k \in Reached(f) : Tags(f, k) \subseteq tagged'
    BY <2>1, <2>4 DEF VisitInv
  <2> QED
    BY <1>1, <2>1, <2>2, <2>3, <2>5, ProgramFixed DEF VisitInv
<1>6. CASE UNCHANGED vars /\ pc \notin {"intra", "inter", "done"}
  BY <1>6 DEF vars, state, VisitInv, Visited
<1> QED
  BY <1>2, <1>3, <1>4, <1>5, <1>6
  DEF Next, ConnectCall, ConnectIndirect, SkipCall, NextCall, LeaveFunction, Done

\* A direct call leaves `pending' only by being connected.
LEMMA NewlyProcessed ==
    ASSUME TInv, VisitInv, [Next]_vars, NEW c \in Inst, DirectCall(c), Processed(c)'
    PROVE  \/ Processed(c)
           \/ ConnectCall(c) /\ prog.owner[c] = F
<1>1. TInv' /\ prog' = prog
  BY TInvNext, EdgesGrow
<1>2. /\ prog.owner[c] \in Func
      /\ Place(prog.owner[c])' = Place(prog.owner[c])
      /\ Place(prog.owner[c]) \in 1 .. Len(prog.order)
      /\ prog.order[Place(prog.owner[c])] = prog.owner[c]
  BY <1>1, OwnerTyped, PlaceFixed, PlaceOfFunction DEF TInv
<1>3. cur \in 1 .. Len(prog.order) /\ Len(prog.order) \in Nat
  BY OrderNonEmpty DEF TInv, TypeOK
<1>4. CASE BuildGlobals \/ BuildFunction \/ BuildCallWrappers \/ BuildGlobalAnnotations
  <2>1. pc' \in {"functions", "callsites", "annotations", "data"}
    BY <1>4 DEF BuildGlobals, BuildFunction, BuildCallWrappers, BuildGlobalAnnotations, Advance
  <2> QED
    BY <2>1 DEF Processed
<1>5. CASE AddDataDependencies
  <2>1. pc' = "intra" /\ cur' = 1
    BY <1>5 DEF AddDataDependencies, VisitInv
  <2> QED
    BY <1>1, <1>2, <2>1 DEF Processed
<1>6. CASE ConnectIntra
  <2>1. pc = "intra" /\ pc' = "inter" /\ cur' = cur /\ pending' = CallsOf(F)
    BY <1>6 DEF ConnectIntra
  <2>2. prog.owner[c] = F => c \in CallsOf(F)
    BY DEF CallsOf, InstsOf, DirectCall
  <2>3. F' = F
    BY <1>1, <2>1 DEF F
  <2> QED
    BY <1>1, <1>2, <2>1, <2>2, <2>3 DEF Processed
<1>7. ASSUME NEW d \in Inst, ConnectCall(d) \/ ConnectIndirect(d) \/ SkipCall(d)
      PROVE  \/ Processed(c)
             \/ ConnectCall(c) /\ prog.owner[c] = F
  <2>1. pc = "inter" /\ pc' = pc /\ cur' = cur /\ pending' = pending \ {d} /\ d \in pending
    BY <1>7 DEF ConnectCall, ConnectIndirect, SkipCall, NextCall
  <2>2. F' = F
    BY <1>1, <2>1 DEF F
  <2>3. Processed(c) \/ c = d
    BY <1>1, <1>2, <2>1, <2>2 DEF Processed
  <2>4. CASE c = d
    <3>1. ConnectCall(c)
      BY <1>7, <2>4, NamesAssumption DEF ConnectIndirect, SkipCall, DirectCall
    <3>2. c \in CallsOf(F)
      BY <2>1, <2>4 DEF VisitInv
    <3> QED
      BY <3>1, <3>2 DEF CallsOf, InstsOf
  <2> QED
    BY <2>3, <2>4
<1>8. CASE LeaveFunction
  <2>1. pc = "inter" /\ pending = {}
    BY <1>8 DEF LeaveFunction
  <2>2. Place(prog.owner[c]) <= cur
    BY <1>1, <1>2, <1>3, <1>8 DEF LeaveFunction, Processed
  <2>3. Place(prog.owner[c]) = cur => prog.owner[c] = F
    BY <1>2 DEF F
  <2> QED
    BY <1>2, <1>3, <2>1, <2>2, <2>3 DEF Processed
<1>9. CASE Done \/ UNCHANGED vars
  BY <1>1, <1>2, <1>9 DEF Done, vars, state, Processed, F
<1> QED
  BY <1>4, <1>5, <1>6, <1>7, <1>8, <1>9 DEF Next

LEMMA WriteFlowsBackNext ==
    ASSUME TInv, VisitInv, WriteFlowsBack, [Next]_vars PROVE WriteFlowsBack'
<1>1. prog' = prog /\ edges \subseteq edges'
  BY EdgesGrow
<1> SUFFICES ASSUME NEW c \in Inst, DirectCall(c)', Processed(c)',
                    Place(Callee(c))' <= Place(prog.owner[c])'
             PROVE  FlowsBack(c)'
  BY DEF WriteFlowsBack
<1>2. /\ DirectCall(c)
      /\ Callee(c)' = Callee(c)
      /\ Place(Callee(c)) <= Place(prog.owner[c])
  BY <1>1, PlaceFixed, ProgramFixed
<1>3. CASE Processed(c)
  <2>1. FlowsBack(c) /\ pc \in {"intra", "inter", "done"}
    BY <1>2, <1>3 DEF WriteFlowsBack, Processed
  <2> QED
    BY <1>1, <2>1, ValuesFixed, FlowsKept
<1>4. CASE ConnectCall(c) /\ prog.owner[c] = F
  <2>1. Visited(Callee(c))
    <3>1. /\ Callee(c) \in Func
          /\ Place(Callee(c)) \in 1 .. Len(prog.order)
          /\ prog.order[Place(Callee(c))] = Callee(c)
          /\ cur \in 1 .. Len(prog.order)
          /\ Place(F) = cur
          /\ Len(prog.order) \in Nat
      BY <1>2, PlaceOfFunction, OrderNonEmpty DEF DirectCall, TInv, TypeOK, F
    <3>2. Place(Callee(c)) < cur \/ Callee(c) = F
      BY <1>2, <1>4, <3>1 DEF F
    <3>3. pc = "inter"
      BY <1>4 DEF ConnectCall, NextCall
    <3> QED
      BY <3>2, <3>3 DEF Visited
  <2>2. prog.kind[c] = "call"
    BY <1>2 DEF DirectCall
  <2>3. \A m \in Joined(c, Callee(c)) :
           m[2] \in TreePrefix(Callee(c)) =>
              \A x \in Written(Callee(c), m[2]) :
                 <<FOut(Callee(c), m[2], x[1]), AOut(c, Callee(c), m[1], x[1]),
                   "PARAMETER_OUT">> \in edges'
    BY <1>4, <2>1, <2>2, ConnectedFlowsBack
  <2>4. \A f, k : Written(f, k)' = Written(f, k)
    <3>1. pc = "inter"
      BY <1>4 DEF ConnectCall, NextCall
    <3> QED
      BY <1>1, <3>1, ValuesFixed, WrittenFixed
  <2>5. /\ Joined(c, Callee(c))' = Joined(c, Callee(c))
        /\ TreePrefix(Callee(c))' = TreePrefix(Callee(c))
        /\ \A k : Written(Callee(c), k)' = Written(Callee(c), k)
    BY <1>1, <1>2, <2>4, ProgramFixed
  <2> QED
    BY <1>2, <2>3, <2>5 DEF FlowsBack
<1> QED
  BY <1>2, <1>3, <1>4, NewlyProcessed

\* When a callee stands no later in the module than its caller, all it writes
\* through a parameter flows back to the call, whatever the programs, their
\* recursion and the garbage on the heap.
THEOREM WritesFlowBack == Spec => []WriteFlowsBack
<1>1. Init => FlowInv
  BY TInvInit DEF Init, FlowInv, VisitInv, Visited, WriteFlowsBack, Processed
<1>2. FlowInv /\ [Next]_vars => FlowInv'
  BY TInvNext, VisitInvNext, WriteFlowsBackNext DEF FlowInv
<1>3. FlowInv => WriteFlowsBack
  BY DEF FlowInv
<1> QED
  BY <1>1, <1>2, <1>3, PTL DEF Spec

-----------------------------------------------------------------------------
(* The node set.  Once its loop has passed a function, the nodes of the      *)
(* function are there; trees of calls come whole, but for those of calls     *)
(* through pointers; and an edge that leaves the node set goes to a tree     *)
(* that is kept out, or hangs in a tree of a call.                           *)

Made(f) == \/ pc \notin {"globals", "functions"}
           \/ pc = "functions" /\ Place(f) < cur

ValueNodes(f) == {ValNode(i) : i \in InstsOf(f)} \cup {ValNode(f)}
PrefixNodes(f) == UNION {FormalTrees(f, k) : k \in TreePrefix(f)}

NodesMade ==
    \A f \in Func : Made(f) => ValueNodes(f) \cup PrefixNodes(f) \subseteq nodes

GlobalsMade ==
    pc # "globals" => \A v \in prog.debugged : HasNode(v)

WithNode == Inst \cup Func \cup prog.debugged
OnlyValues == \A v \in Value : HasNode(v) => v \in WithNode

WholeIn(N) ==
    \A n \in N :
        n[1] \in {"ain", "aout"} =>
            Callee(n[2]) = Indirect \/ ActualTrees(n[2], n[3], n[4]) \subseteq N

Stray(n) ==
    \/ n[1] \in {"fin", "fout"} /\ n[3] \notin TreePrefix(n[2])
    \/ n[1] \in {"ain", "aout"} /\ n[4] = 0

FieldOfCall(e) ==
    /\ e[3] = "PARAMETER_FIELD"
    /\ e[1][1] \in {"ain", "aout"}
    /\ e \in ActualFields(e[1][2], e[1][3], e[1][4])

Settled(e, N) == e[2] \in N \/ Stray(e[2]) \/ FieldOfCall(e)
SettledIn(S, N) == \A e \in S : Settled(e, N)

NodeInv ==
    /\ NodesMade
    /\ GlobalsMade
    /\ OnlyValues
    /\ WholeIn(nodes)
    /\ SettledIn(edges, nodes)

-----------------------------------------------------------------------------
(* The contract.  *)

AliasInv ==
    \A e \in edges : e[3] = "DATA_ALIAS" => <<e[1][2], e[2][2], "DATA_ALIAS">> \in prog.dataDeps

TagWritten ==
    \A t \in tagged : Contract!WrittenAt(t[1], t[2], t[3])

JustInv == \A e \in edges : Contract!Justified(e)

EntryInv == \A f \in Func : Visited(f) => ControlEdges(f) \subseteq edges

FlowsIn(c) ==
    \A m \in Joined(c, Callee(c)) : \A p \in Shape(Callee(c), m[2]) :
        <<Callee(c), m[2]>> \notin dirty =>
            <<AIn(c, Callee(c), m[1], p), FIn(Callee(c), m[2], p), "PARAMETER_IN">> \in edges

CallInv ==
    \A c \in Inst :
        DirectCall(c) /\ Processed(c) => InvokeEdges(c, Callee(c)) \subseteq edges /\ FlowsIn(c)

AliasMade ==
    pc \in {"intra", "inter", "done"} =>
        \A d \in prog.dataDeps :
            d[3] = "DATA_ALIAS" => <<ValNode(d[1]), ValNode(d[2]), "DATA_ALIAS">> \in edges

FedInv ==
    \A f \in Func : Visited(f) =>
        \A k \in TreePrefix(f) : \A p \in Shape(f, k) : \A w \in Contract!Fed(f, k, p) :
            <<FIn(f, k, p), ValNode(w), "PARAMETER_IN">> \in edges

ContractInv ==
    /\ AliasInv /\ AliasMade
    /\ TagWritten
    /\ JustInv
    /\ EntryInv /\ FedInv /\ CallInv

-----------------------------------------------------------------------------
(* Which nodes the edges of each step lead to. *)

LEMMA SettledGrows ==
    ASSUME NEW S, NEW M, NEW N, M \subseteq N, SettledIn(S, M)
    PROVE  SettledIn(S, N)
BY DEF SettledIn, Settled

\* An edge to a node of the set is settled.
LEMMA EndInSet ==
    ASSUME NEW N, NEW n \in N, NEW s, NEW t
    PROVE  Settled(<<s, n, t>>, N)
BY DEF Settled

LEMMA FormalFieldsSettled ==
    ASSUME NEW f \in Func, NEW k, NEW N,
           k \in TreePrefix(f) => FormalTrees(f, k) \subseteq N
    PROVE  SettledIn(FormalFields(f, k), N)
<1> SUFFICES ASSUME NEW e \in FormalFields(f, k) PROVE Settled(e, N)
  BY DEF SettledIn
<1>1. PICK p \in Below(f, k) : e[2] = FIn(f, k, p) \/ e[2] = FOut(f, k, p)
  BY DEF FormalFields
<1>2. e[2] \in FormalTrees(f, k)
  BY <1>1 DEF FormalTrees, Below
<1>3. CASE k \in TreePrefix(f)
  BY <1>2, <1>3 DEF Settled
<1>4. CASE k \notin TreePrefix(f)
  BY <1>1, <1>4 DEF Settled, Stray, FIn, FOut
<1> QED
  BY <1>3, <1>4

LEMMA CallFieldsSettled ==
    ASSUME NEW c, NEW f, NEW N PROVE SettledIn(CallFields(c, f), N)
<1> SUFFICES ASSUME NEW e \in CallFields(c, f) PROVE FieldOfCall(e)
  BY DEF SettledIn, Settled
<1>1. PICK k : e \in ActualFields(c, f, k)
  BY DEF CallFields
<1>2. PICK p : \/ e = <<AIn(c, f, k, Parent[p]), AIn(c, f, k, p), "PARAMETER_FIELD">>
               \/ e = <<AOut(c, f, k, Parent[p]), AOut(c, f, k, p), "PARAMETER_FIELD">>
  BY <1>1 DEF ActualFields
<1>3. e[1] = AIn(c, f, k, Parent[p]) \/ e[1] = AOut(c, f, k, Parent[p])
  BY <1>2
<1>4. e[1][1] \in {"ain", "aout"} /\ e[1][2] = c /\ e[1][3] = f /\ e[1][4] = k
  BY <1>3 DEF AIn, AOut
<1>5. e[3] = "PARAMETER_FIELD"
  BY <1>2
<1> QED
  BY <1>1, <1>4, <1>5 DEF FieldOfCall

\* The tree an argument is given is made for the first position that passes
\* its value; there it stands for itself.
LEMMA CallTreesJoined ==
    ASSUME ProgOK, NEW c \in Inst, prog.kind[c] = "call", Callee(c) \in Func,
           NEW j \in CallTrees(c, Callee(c))
    PROVE  <<j, j>> \in Joined(c, Callee(c)) /\ j # 0
<1> DEFINE f == Callee(c)
<1>1. PICK k : j \in TreeOf(c, f, k)
  BY DEF CallTrees
<1>2. /\ j \in Built(c, f)
      /\ \A i \in Built(c, f) : Actual(c, i) = Actual(c, j) => j <= i
  BY <1>1 DEF TreeOf
<1>3. j \in TreeOf(c, f, j)
  BY <1>2 DEF TreeOf
<1>4. f \notin prog.varArg /\ j \in TreePrefix(f)
  BY <1>2 DEF Built
<1>5. j \in Positions(f) /\ j \in 1 .. j /\ j # 0
  BY <1>4, FunctionPositionsTyped, ProgramTyped DEF TreePrefix, Positions, WellTyped
<1>6. HasTree(f, j)
  BY <1>4, <1>5 DEF TreePrefix
<1>7. NumActual(c) = prog.arity[f]
  <2>1. MayCall(prog, c, f) /\ CallsFit(prog)
    BY <1>4, ProgramTyped DEF MayCall, Callee, WellFormed
  <2> QED
    BY <2>1 DEF CallsFit, NumActual
<1> QED
  BY <1>3, <1>5, <1>6, <1>7 DEF Joined

\* A tree has a root, and what a call adds to the node set for it has all of it.
LEMMA RootsOfTrees ==
    ASSUME ProgOK, NEW f \in Func, NEW k, HasTree(f, k)
    PROVE  Root \in Shape(f, k)
BY ProgramTyped, NamesAssumption DEF WellFormed, TreesClosed, HasTree, Shape

\* How an edge of connectOutTrees comes about.
LEMMA OutTreeEdge ==
    ASSUME NEW c, NEW f, NEW j, NEW k, NEW e \in OutTreeEdges(c, f, j, k)
    PROVE  \E p \in Shape(f, k) :
               <<f, k, p>> \in tagged /\ e = <<FOut(f, k, p), AOut(c, f, j, p), "PARAMETER_OUT">>
<1>1. PICK p \in {q \in Shape(f, k) : SameSize(f, j, k) /\ <<f, k, q>> \in tagged} :
          e = <<FOut(f, k, p), AOut(c, f, j, p), "PARAMETER_OUT">>
  BY DEF OutTreeEdges
<1> QED
  BY <1>1

LEMMA ArgPassEnds ==
    ASSUME NEW c, NEW f, NEW in, NEW out, NEW N, nodes \subseteq N,
           \A j \in CallTrees(c, f) : AIn(c, f, j, Root) \in N
    PROVE  SettledIn(ArgPassEdges(c, f, in, out), N)
<1> DEFINE passed == {k \in 1 .. NumActual(c) : HasNode(Actual(c, k))}
           at(k)  == {<<ValNode(Actual(c, k)), AIn(c, f, j, Root), in>> : j \in TreeOf(c, f, k)}
                     \cup {<<AOut(c, f, j, Root), ValNode(Actual(c, k)), out>> : j \in TreeOf(c, f, k)}
<1>1. \A k \in passed : SettledIn(at(k), N)
  <2> SUFFICES ASSUME NEW k \in passed, NEW e \in at(k) PROVE e[2] \in N
    BY DEF SettledIn, Settled
  <2>1. ValNode(Actual(c, k)) \in N
    BY DEF HasNode
  <2>2. \A j \in TreeOf(c, f, k) : AIn(c, f, j, Root) \in N
    BY DEF CallTrees
  <2> QED
    BY <2>1, <2>2
<1>2. ArgPassEdges(c, f, in, out) = UNION {at(k) : k \in passed}
  BY DEF ArgPassEdges
<1> QED
  BY <1>1, <1>2 DEF SettledIn

-----------------------------------------------------------------------------
(* The parts of the node invariant, step by step. *)

LEMMA NodePartsFixed ==
    ASSUME prog' = prog
    PROVE  /\ \A f : ValueNodes(f)' = ValueNodes(f) /\ PrefixNodes(f)' = PrefixNodes(f)
           /\ \A c, f, k : ActualTrees(c, f, k)' = ActualTrees(c, f, k)
           /\ \A n : Stray(n)' <=> Stray(n)
           /\ \A e : FieldOfCall(e)' <=> FieldOfCall(e)
           /\ WithNode' = WithNode
<1>1. \A f, k : Shape(f, k)' = Shape(f, k)
  BY DEF Shape
<1>2. \A f : TreePrefix(f)' = TreePrefix(f)
  BY ProgramFixed
<1>3. \A f : ValueNodes(f)' = ValueNodes(f)
  BY DEF ValueNodes, InstsOf, ValNode
<1>4. \A f : PrefixNodes(f)' = PrefixNodes(f)
  BY <1>1, <1>2 DEF PrefixNodes, FormalTrees, FIn, FOut
<1>5. \A c, f, k : ActualTrees(c, f, k)' = ActualTrees(c, f, k)
  BY <1>1 DEF ActualTrees, AIn, AOut
<1>6. \A n : Stray(n)' <=> Stray(n)
  BY <1>2 DEF Stray
<1>7. \A c, f, k : ActualFields(c, f, k)' = ActualFields(c, f, k)
  BY <1>1 DEF ActualFields, Below, AIn, AOut
<1>8. \A e : FieldOfCall(e)' <=> FieldOfCall(e)
  BY <1>7 DEF FieldOfCall
<1> QED
  BY <1>3, <1>4, <1>5, <1>6, <1>8 DEF WithNode

\* No step takes a node away.
LEMMA NodesGrow ==
    ASSUME [Next]_vars, pc # "globals" \/ nodes = {} PROVE nodes \subseteq nodes'
<1>1. CASE BuildGlobals
  BY <1>1 DEF BuildGlobals
<1>2. CASE \/ BuildCallWrappers \/ AddDataDependencies \/ ConnectIntra \/ LeaveFunction
           \/ Done \/ UNCHANGED vars
  BY <1>2 DEF BuildCallWrappers, AddDataDependencies, ConnectIntra, LeaveFunction, Done, vars, state
<1>3. CASE BuildFunction \/ BuildGlobalAnnotations
  BY <1>3 DEF BuildFunction, BuildGlobalAnnotations
<1>4. ASSUME NEW c \in Inst, ConnectCall(c) \/ ConnectIndirect(c) \/ SkipCall(c)
      PROVE  nodes \subseteq nodes'
  BY <1>4 DEF ConnectCall, ConnectIndirect, SkipCall, state
<1> QED
  BY <1>1, <1>2, <1>3, <1>4 DEF Next

\* Only the loop over the functions goes past one.
LEMMA NewlyMade ==
    ASSUME TInv, VisitInv, [Next]_vars, NEW f \in Func, Made(f)'
    PROVE  Made(f) \/ (BuildFunction /\ f = F)
<1>1. TInv' /\ prog' = prog
  BY TInvNext, EdgesGrow
<1>2. /\ Place(f)' = Place(f)
      /\ Place(f) \in 1 .. Len(prog.order)
      /\ prog.order[Place(f)] = f
  BY <1>1, PlaceFixed, PlaceOfFunction DEF TInv
<1>3. cur \in 1 .. Len(prog.order) /\ Len(prog.order) \in Nat
  BY OrderNonEmpty DEF TInv, TypeOK
<1>4. CASE BuildGlobals
  <2>1. pc' = "functions" /\ cur' = 1
    BY <1>4 DEF BuildGlobals, VisitInv
  <2> QED
    BY <1>2, <2>1 DEF Made
<1>5. CASE BuildFunction
  <2>1. pc = "functions"
    BY <1>5 DEF BuildFunction
  <2>2. Place(f) < cur \/ Place(f) = cur
    BY <1>2, <1>3, <1>5 DEF BuildFunction, Advance, Made
  <2>3. Place(f) = cur => f = F
    BY <1>2 DEF F
  <2> QED
    BY <1>5, <2>1, <2>2, <2>3 DEF Made
<1>6. CASE pc \notin {"globals", "functions"}
  BY <1>6 DEF Made
<1>7. CASE UNCHANGED vars
  BY <1>2, <1>7 DEF vars, Made
<1> QED
  BY <1>4, <1>5, <1>6, <1>7
  DEF Next, BuildCallWrappers, BuildGlobalAnnotations, AddDataDependencies, ConnectIntra,
      ConnectCall, ConnectIndirect, SkipCall, NextCall, LeaveFunction, Done

LEMMA NodesMadeNext ==
    ASSUME TInv, VisitInv, NodesMade, nodes \subseteq nodes', [Next]_vars PROVE NodesMade'
<1>1. prog' = prog
  BY EdgesGrow
<1> SUFFICES ASSUME NEW f \in Func, Made(f)'
             PROVE  ValueNodes(f) \cup PrefixNodes(f) \subseteq nodes'
  BY <1>1, NodePartsFixed DEF NodesMade
<1>2. CASE Made(f)
  BY <1>2 DEF NodesMade
<1>3. CASE BuildFunction /\ f = F
  BY <1>3 DEF BuildFunction, ValueNodes, PrefixNodes
<1> QED
  BY <1>2, <1>3, NewlyMade

\* Nodes of values are made for globals with debug information and for what a
\* function holds; the others are those of trees and of the annotations.
LEMMA OnlyValuesNext ==
    ASSUME TInv, OnlyValues, [Next]_vars PROVE OnlyValues'
<1>1. prog' = prog
  BY EdgesGrow
<1> SUFFICES ASSUME NEW v \in Value, ValNode(v) \in nodes' PROVE v \in WithNode
  BY <1>1, NodePartsFixed DEF OnlyValues, HasNode, Value, ValNode
<1>2. ValNode(v) \in nodes => v \in WithNode
  BY DEF OnlyValues, HasNode
<1>3. \A w \in WithNode : ValNode(v) = ValNode(w) => v \in WithNode
  BY DEF ValNode
<1>4. CASE BuildGlobals
  BY <1>3, <1>4 DEF BuildGlobals, WithNode
<1>5. CASE BuildFunction
  <2>1. F \in Func
    BY CurrentFunction
  <2>2. ValNode(v) \notin UNION {FormalTrees(F, k) : k \in TreePrefix(F)}
    BY DEF FormalTrees, FIn, FOut, ValNode
  <2>3. {ValNode(i) : i \in InstsOf(F)} \cup {ValNode(F)} \subseteq {ValNode(w) : w \in WithNode}
    BY <2>1 DEF InstsOf, WithNode
  <2> QED
    BY <1>2, <1>3, <1>5, <2>2, <2>3 DEF BuildFunction
<1>6. CASE BuildGlobalAnnotations
  BY <1>2, <1>6 DEF BuildGlobalAnnotations, AnnotationsNode, ValNode
<1>7. ASSUME NEW c \in Inst, ConnectCall(c) PROVE v \in WithNode
  <2>1. ValNode(v) \notin UNION {ActualTrees(c, Callee(c), m[1]) : m \in Joined(c, Callee(c))}
    BY DEF ActualTrees, AIn, AOut, ValNode
  <2> QED
    BY <1>2, <1>7, <2>1 DEF ConnectCall
<1>8. ASSUME NEW c \in Inst, ConnectIndirect(c) PROVE v \in WithNode
  <2>1. ValNode(v) \notin UNION {IndirectRoots(c, f) : f \in Candidates(c)}
    BY DEF IndirectRoots, AIn, AOut, ValNode
  <2> QED
    BY <1>2, <1>8, <2>1 DEF ConnectIndirect
<1>9. CASE \/ BuildCallWrappers \/ AddDataDependencies \/ ConnectIntra \/ LeaveFunction
           \/ Done \/ UNCHANGED vars
  BY <1>2, <1>9
  DEF BuildCallWrappers, AddDataDependencies, ConnectIntra, LeaveFunction, Done, vars, state
<1>10. ASSUME NEW c \in Inst, SkipCall(c) PROVE v \in WithNode
  BY <1>2, <1>10 DEF SkipCall, state
<1> QED
  BY <1>4, <1>5, <1>6, <1>7, <1>8, <1>9, <1>10 DEF Next

LEMMA GlobalsMadeNext ==
    ASSUME GlobalsMade, nodes \subseteq nodes', [Next]_vars PROVE GlobalsMade'
<1>1. prog' = prog
  BY EdgesGrow
<1> SUFFICES ASSUME pc' # "globals", NEW v \in prog.debugged PROVE ValNode(v) \in nodes'
  BY <1>1 DEF GlobalsMade, HasNode, ValNode
<1>2. CASE BuildGlobals
  BY <1>2 DEF BuildGlobals
<1>3. CASE pc # "globals"
  BY <1>3 DEF GlobalsMade, HasNode
<1>4. CASE UNCHANGED vars
  BY <1>3, <1>4 DEF vars
<1> QED
  BY <1>2, <1>3, <1>4
  DEF Next, BuildFunction, BuildCallWrappers, BuildGlobalAnnotations, AddDataDependencies,
      ConnectIntra, ConnectCall, ConnectIndirect, SkipCall, NextCall, LeaveFunction, Done

\* From the call sites on every value that can have a node has one, and so has
\* every formal tree of the prefix.
LEMMA AllMade ==
    ASSUME NodesMade, GlobalsMade, ProgOK, pc \notin {"globals", "functions"}
    PROVE  /\ \A v \in WithNode : ValNode(v) \in nodes
           /\ \A f \in Func : \A k : k \in TreePrefix(f) => FormalTrees(f, k) \subseteq nodes
<1>1. \A f \in Func : ValueNodes(f) \cup PrefixNodes(f) \subseteq nodes
  BY DEF NodesMade, Made
<1>2. \A i \in Inst : prog.owner[i] \in Func
  BY OwnerTyped
<1>3. \A i \in Inst : ValNode(i) \in ValueNodes(prog.owner[i])
  BY DEF ValueNodes, InstsOf
<1>4. \A f \in Func : ValNode(f) \in ValueNodes(f)
  BY DEF ValueNodes
<1>5. \A v \in prog.debugged : ValNode(v) \in nodes
  BY DEF GlobalsMade, HasNode
<1>6. \A f \in Func : \A k : k \in TreePrefix(f) => FormalTrees(f, k) \subseteq nodes
  BY <1>1 DEF PrefixNodes
<1> QED
  BY <1>1, <1>2, <1>3, <1>4, <1>5, <1>6 DEF WithNode

LEMMA WholeKept ==
    ASSUME prog' = prog, WholeIn(nodes), nodes \subseteq nodes',
           \A n \in nodes' \ nodes :
               n[1] \in {"ain", "aout"} =>
                   Callee(n[2]) = Indirect \/ ActualTrees(n[2], n[3], n[4]) \subseteq nodes'
    PROVE  WholeIn(nodes)'
BY NodePartsFixed, ProgramFixed DEF WholeIn

\* A call adds whole trees, or, through a pointer, roots.
LEMMA WholeNext ==
    ASSUME TInv, WholeIn(nodes), nodes \subseteq nodes', [Next]_vars PROVE WholeIn(nodes)'
<1>1. prog' = prog
  BY EdgesGrow
<1>2. CASE BuildGlobals
  BY <1>1, <1>2, WholeKept DEF BuildGlobals, ValNode
<1>3. CASE BuildFunction
  <2>1. \A n \in nodes' \ nodes : n[1] \notin {"ain", "aout"}
    BY <1>3 DEF BuildFunction, ValNode, FormalTrees, FIn, FOut
  <2> QED
    BY <1>1, <2>1, WholeKept
<1>4. CASE BuildGlobalAnnotations
  BY <1>1, <1>4, WholeKept DEF BuildGlobalAnnotations, AnnotationsNode
<1>5. ASSUME NEW c \in Inst, ConnectCall(c) PROVE WholeIn(nodes)'
  <2>1. nodes' = nodes \cup UNION {ActualTrees(c, Callee(c), m[1]) : m \in Joined(c, Callee(c))}
    BY <1>5 DEF ConnectCall
  <2>2. \A n \in nodes' \ nodes : \E k :
            /\ n \in ActualTrees(c, Callee(c), k)
            /\ ActualTrees(c, Callee(c), k) \subseteq nodes'
    BY <2>1
  <2>3. \A k : \A n \in ActualTrees(c, Callee(c), k) :
            n[2] = c /\ n[3] = Callee(c) /\ n[4] = k
    BY DEF ActualTrees, AIn, AOut
  <2>4. \A n \in nodes' \ nodes : ActualTrees(n[2], n[3], n[4]) \subseteq nodes'
    BY <2>2, <2>3
  <2> QED
    BY <1>1, <2>1, <2>4, WholeKept
<1>6. ASSUME NEW c \in Inst, ConnectIndirect(c) PROVE WholeIn(nodes)'
  <2>1. \A n \in nodes' \ nodes : n[2] = c
    BY <1>6 DEF ConnectIndirect, IndirectRoots, AIn, AOut
  <2> QED
    BY <1>1, <1>6, <2>1, WholeKept DEF ConnectIndirect
<1>7. CASE \/ BuildCallWrappers \/ AddDataDependencies \/ ConnectIntra \/ LeaveFunction
           \/ Done \/ UNCHANGED vars
  BY <1>1, <1>7, WholeKept
  DEF BuildCallWrappers, AddDataDependencies, ConnectIntra, LeaveFunction, Done, vars, state
<1>8. ASSUME NEW c \in Inst, SkipCall(c) PROVE WholeIn(nodes)'
  BY <1>1, <1>8, WholeKept DEF SkipCall, state
<1> QED
  BY <1>2, <1>3, <1>4, <1>5, <1>6, <1>7, <1>8 DEF Next

LEMMA SettledKept ==
    ASSUME prog' = prog, nodes \subseteq nodes', SettledIn(edges, nodes),
           SettledIn(edges' \ edges, nodes')
    PROVE  SettledIn(edges, nodes)'
BY NodePartsFixed DEF SettledIn, Settled

\* What a visit of f adds leads to values or to the formal trees of f.
LEMMA IntraSettled ==
    ASSUME TInv, VisitInv, NodeInv, ConnectIntra PROVE SettledIn(edges' \ edges, nodes')
<1>1. /\ pc = "intra" /\ nodes' = nodes
      /\ \A e \in edges' \ edges :
            \/ e \in ControlEdges(F)
            \/ \E k \in TreePrefix(F) : \/ e = <<ValNode(F), FIn(F, k, Root), "PARAMETER_IN">>
                                        \/ e = <<ValNode(F), FOut(F, k, Root), "PARAMETER_OUT">>
            \/ \E k \in Reached(F) : e \in FormalInEdges(F, k) \/ e \in FormalOutEdges(F, k)
  BY DEF ConnectIntra
<1>2. F \in Func /\ ProgOK
  BY CurrentFunction DEF TInv
<1>3. /\ \A v \in WithNode : ValNode(v) \in nodes
      /\ \A k : k \in TreePrefix(F) => FormalTrees(F, k) \subseteq nodes
  BY <1>1, <1>2, AllMade DEF NodeInv
<1>4. ASSUME NEW e \in ControlEdges(F) PROVE Settled(e, nodes)
  <2>1. prog.branchDeps \subseteq Inst \X Inst
    BY <1>2, ProgramTyped DEF WellTyped
  <2>2. \E i \in Inst : e[2] = ValNode(i)
    BY <2>1 DEF ControlEdges, InstsOf
  <2> QED
    BY <1>3, <2>2 DEF Settled, WithNode
<1>5. ASSUME NEW k \in TreePrefix(F)
      PROVE  FIn(F, k, Root) \in nodes /\ FOut(F, k, Root) \in nodes
  <2>1. k \in 1 .. k
    BY <1>2, FunctionPositionsTyped, ProgramTyped DEF TreePrefix, Positions, WellTyped
  <2>2. HasTree(F, k)
    BY <2>1 DEF TreePrefix
  <2>3. FIn(F, k, Root) \in FormalTrees(F, k) /\ FOut(F, k, Root) \in FormalTrees(F, k)
    BY <1>2, <2>2, RootsOfTrees DEF FormalTrees
  <2> QED
    BY <1>3, <2>3
<1>6. ASSUME NEW k, NEW e \in FormalInEdges(F, k) PROVE e[2] \in nodes
  <2>1. \E v : e[2] = ValNode(v) /\ (v \in Inst \/ HasNode(v))
    BY DEF FormalInEdges, FormalVars
  <2> QED
    BY <1>3, <2>1 DEF WithNode, HasNode
<1>7. ASSUME NEW k, NEW e \in FormalOutEdges(F, k) PROVE Settled(e, nodes)
  <2>1. PICK p \in Shape(F, k) : e[2] = FOut(F, k, p)
    BY DEF FormalOutEdges, Written, FormalVars
  <2>2. CASE k \in TreePrefix(F)
    BY <1>3, <2>1, <2>2 DEF FormalTrees, Settled
  <2>3. CASE k \notin TreePrefix(F)
    BY <2>1, <2>3 DEF Settled, Stray, FOut
  <2> QED
    BY <2>2, <2>3
<1> QED
  BY <1>1, <1>4, <1>5, <1>6, <1>7 DEF SettledIn, Settled

\* A connected call leads to values, to trees it adds, or to trees that are
\* kept out: those of its return value and those behind a gap.
LEMMA CallSettled ==
    ASSUME TInv, VisitInv, NodeInv, NEW c \in Inst, ConnectCall(c)
    PROVE  SettledIn(CallEdges(c, Callee(c)), nodes')
<1> DEFINE f == Callee(c)
           N == nodes'
<1>1. /\ f \in Func /\ ProgOK
      /\ pc = "inter" /\ prog.kind[c] = "call"
      /\ nodes \subseteq N
      /\ \A m \in Joined(c, f) : ActualTrees(c, f, m[1]) \subseteq N
  BY DEF ConnectCall, NextCall, TInv, WrappedDirect, VisitInv, CallsOf
<1>2. /\ \A v \in WithNode : ValNode(v) \in N
      /\ \A k : k \in TreePrefix(f) => FormalTrees(f, k) \subseteq N
  BY <1>1, AllMade DEF NodeInv
<1>3. \A j \in CallTrees(c, f) :
          /\ j # 0 /\ HasTree(f, j)
          /\ ActualTrees(c, f, j) \subseteq N
          /\ AIn(c, f, j, Root) \in N /\ AOut(c, f, j, Root) \in N
  <2> TAKE j \in CallTrees(c, f)
  <2>1. <<j, j>> \in Joined(c, f) /\ j # 0
    BY <1>1, CallTreesJoined
  <2>2. HasTree(f, j) /\ ActualTrees(c, f, j) \subseteq N
    BY <1>1, <2>1, JoinedTyped
  <2>3. Root \in Shape(f, j)
    BY <1>1, <2>2, RootsOfTrees
  <2> QED
    BY <2>1, <2>2, <2>3 DEF ActualTrees
<1> HIDE DEF f, N
<1>4. SettledIn(RootEdges(c, f), N)
  BY <1>3 DEF RootEdges, SettledIn, Settled
<1>5. SettledIn(VarEdges(c, f), N)
  <2> SUFFICES ASSUME NEW j \in CallTrees(c, f) \cup {0}, NEW e \in ActualVarEdges(c, f, j)
               PROVE  Settled(e, N)
    BY DEF VarEdges, SettledIn
  <2>1. PICK p \in Shape(f, j) : e[2] = AIn(c, f, j, p) \/ e[2] = AOut(c, f, j, p)
    BY DEF ActualVarEdges, ActualVars
  <2>2. CASE j = 0
    BY <2>1, <2>2 DEF Settled, Stray, AIn, AOut
  <2>3. CASE j \in CallTrees(c, f)
    BY <1>3, <2>1, <2>3 DEF Settled, ActualTrees
  <2> QED
    BY <2>2, <2>3
<1>6. SettledIn(ArgPassEdges(c, f, "DATA_ARGPASS_IN", "DATA_ARGPASS_OUT"), N)
  BY <1>1, <1>3, ArgPassEnds
<1>7. SettledIn(InvokeEdges(c, f), N)
  BY <1>1, <1>2 DEF InvokeEdges, SettledIn, Settled, WithNode
<1>8. SettledIn(TreeEdges(c, f), N)
  <2> SUFFICES ASSUME NEW m \in Joined(c, f),
                      NEW e \in InTreeEdges(c, f, m[1], m[2]) \cup OutTreeEdges(c, f, m[1], m[2])
               PROVE  Settled(e, N)
    BY DEF TreeEdges, SettledIn
  <2>1. PICK p \in Shape(f, m[2]) : e[2] = FIn(f, m[2], p) \/ e[2] = AOut(c, f, m[1], p)
    <3>1. ASSUME NEW d \in InTreeEdges(c, f, m[1], m[2])
          PROVE  \E p \in Shape(f, m[2]) : d[2] = FIn(f, m[2], p)
      BY DEF InTreeEdges
    <3>2. ASSUME NEW d \in OutTreeEdges(c, f, m[1], m[2])
          PROVE  \E p \in Shape(f, m[2]) : d[2] = AOut(c, f, m[1], p)
      <4>1. PICK p \in Shape(f, m[2]) :
                /\ <<f, m[2], p>> \in tagged
                /\ d = <<FOut(f, m[2], p), AOut(c, f, m[1], p), "PARAMETER_OUT">>
        BY OutTreeEdge
      <4> QED
        BY <4>1
    <3> QED
      BY <3>1, <3>2
  <2>2. CASE e[2] = AOut(c, f, m[1], p)
    <3>1. p \in Shape(f, m[1])
      BY <1>1, <2>1, JoinedSameShape DEF f
    <3> QED
      BY <1>1, <2>2, <3>1 DEF Settled, ActualTrees
  <2>3. CASE e[2] = FIn(f, m[2], p) /\ m[2] \in TreePrefix(f)
    BY <1>2, <2>1, <2>3 DEF Settled, FormalTrees
  <2>4. CASE e[2] = FIn(f, m[2], p) /\ m[2] \notin TreePrefix(f)
    BY <2>4 DEF Settled, Stray, FIn
  <2> QED
    BY <2>1, <2>2, <2>3, <2>4
<1>9. SettledIn(RetTreeEdges(c, f), N)
  <2>1. 0 \notin TreePrefix(f)
    BY <1>1, FunctionPositionsTyped, ProgramTyped DEF Positions, WellTyped
  <2> QED
    BY <2>1 DEF RetTreeEdges, SettledIn, Settled, Stray, FIn, FOut
<1> QED
  BY <1>4, <1>5, <1>6, <1>7, <1>8, <1>9 DEF CallEdges, SettledIn, f, N

LEMMA IndirectSettled ==
    ASSUME TInv, VisitInv, NodeInv, NEW c \in Inst, ConnectIndirect(c)
    PROVE  SettledIn(edges' \ edges, nodes')
<1>1. /\ ProgOK
      /\ pc = "inter"
      /\ nodes \subseteq nodes'
      /\ edges' = edges \cup UNION {IndirectEdges(c, f) : f \in Candidates(c)}
      /\ \A f \in Candidates(c) : f \in Func /\ IndirectRoots(c, f) \subseteq nodes'
  BY DEF ConnectIndirect, NextCall, TInv, Candidates
<1>2. \A v \in WithNode : ValNode(v) \in nodes'
  BY <1>1, AllMade DEF NodeInv
<1>3. ASSUME NEW f \in Candidates(c) PROVE SettledIn(IndirectEdges(c, f), nodes')
  <2>1. SettledIn(CallFields(c, f), nodes')
    BY CallFieldsSettled
  <2>2. SettledIn(ArgPassEdges(c, f, "DATA_ARGPASS_INDIRECT_IN", "DATA_ARGPASS_INDIRECT_OUT"), nodes')
    BY <1>1, ArgPassEnds DEF IndirectRoots
  <2>3. ValNode(f) \in nodes'
    BY <1>1, <1>2, <1>3 DEF WithNode
  <2> QED
    BY <2>1, <2>2, <2>3 DEF IndirectEdges, SettledIn, Settled
<1> QED
  BY <1>1, <1>3 DEF SettledIn

LEMMA SettledNext ==
    ASSUME TInv, VisitInv, NodeInv, nodes \subseteq nodes', [Next]_vars
    PROVE  SettledIn(edges, nodes)'
<1>1. prog' = prog
  BY EdgesGrow
<1>2. SettledIn(edges, nodes)
  BY DEF NodeInv
<1> SUFFICES SettledIn(edges' \ edges, nodes')
  BY <1>1, <1>2, SettledKept
<1>3. CASE edges' = edges
  BY <1>3 DEF SettledIn
<1>4. CASE BuildFunction
  <2>1. F \in Func
    BY CurrentFunction
  <2>2. \A k : k \in TreePrefix(F) => FormalTrees(F, k) \subseteq nodes'
    BY <1>4 DEF BuildFunction
  <2>3. \A e \in edges' \ edges : \E k : e \in FormalFields(F, k)
    BY <1>4 DEF BuildFunction
  <2> QED
    BY <2>1, <2>2, <2>3, FormalFieldsSettled DEF SettledIn
<1>5. CASE BuildCallWrappers
  <2>1. \A e \in edges' \ edges : \E c : e \in CallFields(c, Callee(c))
    BY <1>5 DEF BuildCallWrappers
  <2> QED
    BY <2>1, CallFieldsSettled DEF SettledIn
<1>6. CASE BuildGlobalAnnotations
  BY <1>6 DEF BuildGlobalAnnotations, SettledIn, Settled
<1>7. CASE AddDataDependencies
  <2>1. prog.dataDeps \subseteq Inst \X (Inst \cup Func) \X DataDepType
    BY ProgramTyped DEF WellTyped, TInv
  <2>2. \A v \in WithNode : ValNode(v) \in nodes'
    BY <1>7, AllMade DEF AddDataDependencies, NodeInv, TInv
  <2>3. \A e \in edges' \ edges : \E v : e[2] = ValNode(v) /\ (v \in WithNode \/ HasNode(v))
    BY <1>7, <2>1 DEF AddDataDependencies, WithNode
  <2> QED
    BY <2>2, <2>3 DEF SettledIn, Settled, HasNode
<1>8. CASE ConnectIntra
  BY <1>8, IntraSettled
<1>9. ASSUME NEW c \in Inst, ConnectCall(c) PROVE SettledIn(edges' \ edges, nodes')
  BY <1>9, CallSettled DEF ConnectCall, SettledIn
<1>10. ASSUME NEW c \in Inst, ConnectIndirect(c) PROVE SettledIn(edges' \ edges, nodes')
  BY <1>10, IndirectSettled
<1>11. CASE BuildGlobals \/ LeaveFunction \/ Done \/ UNCHANGED vars
  BY <1>3, <1>11 DEF BuildGlobals, LeaveFunction, Done, vars, state
<1>12. ASSUME NEW c \in Inst, SkipCall(c) PROVE SettledIn(edges' \ edges, nodes')
  BY <1>3, <1>12 DEF SkipCall, state
<1> QED
  BY <1>4, <1>5, <1>6, <1>7, <1>8, <1>9, <1>10, <1>11, <1>12 DEF Next

\* The node set is empty until the first step.
EmptyAtFirst == pc = "globals" => nodes = {}

LEMMA EmptyAtFirstNext ==
    ASSUME EmptyAtFirst, [Next]_vars PROVE EmptyAtFirst'
<1>1. CASE UNCHANGED vars
  BY <1>1 DEF EmptyAtFirst, vars, state
<1>2. CASE BuildFunction \/ BuildCallWrappers
  BY <1>2 DEF EmptyAtFirst, BuildFunction, BuildCallWrappers, Advance
<1> QED
  BY <1>1, <1>2
  DEF EmptyAtFirst, Next, BuildGlobals, BuildGlobalAnnotations, AddDataDependencies, ConnectIntra,
      ConnectCall, ConnectIndirect, SkipCall, NextCall, LeaveFunction, Done, vars

LEMMA NodeInvNext ==
    ASSUME TInv, VisitInv, EmptyAtFirst, NodeInv, [Next]_vars PROVE NodeInv'
<1>1. nodes \subseteq nodes'
  BY NodesGrow DEF EmptyAtFirst
<1> QED
  BY <1>1, NodesMadeNext, GlobalsMadeNext, OnlyValuesNext, WholeNext, SettledNext DEF NodeInv

\* Of a tree of a direct call all nodes are in the node set or none is.
LEMMA StraysAreKnown ==
    ASSUME TInv, NodeInv PROVE OnlyKnownStrays
<1> SUFFICES ASSUME NEW e \in edges, e[1] \in nodes, e[2] \notin nodes, ~Stray(e[2])
             PROVE  /\ e[3] = "PARAMETER_FIELD"
                    /\ e[1][1] \in {"ain", "aout"}
                    /\ Callee(e[1][2]) = Indirect
  BY DEF OnlyKnownStrays, Stray
<1>1. FieldOfCall(e)
  BY DEF NodeInv, SettledIn, Settled
<1>2. e[2] \in ActualTrees(e[1][2], e[1][3], e[1][4])
  BY <1>1 DEF FieldOfCall, ActualFields, ActualTrees, Below
<1>3. Callee(e[1][2]) = Indirect
  BY <1>1, <1>2 DEF FieldOfCall, NodeInv, WholeIn
<1> QED
  BY <1>1, <1>3 DEF FieldOfCall

\* Whatever the program, an edge that leaves the node set goes to the tree of a
\* return value, to an argument behind one without a tree, or to a tree of a
\* call through a pointer; every other tree the exporters see is whole.
THEOREM StraysKnown == Spec => []OnlyKnownStrays
<1>1. Init => TInv /\ VisitInv /\ EmptyAtFirst /\ NodeInv
  <2> SUFFICES ASSUME Init PROVE TInv /\ VisitInv /\ EmptyAtFirst /\ NodeInv
    OBVIOUS
  <2>1. TInv
    BY TInvInit
  <2>2. VisitInv /\ EmptyAtFirst
    BY DEF Init, VisitInv, Visited, EmptyAtFirst
  <2>3. NodeInv
    BY DEF Init, NodeInv, NodesMade, Made, GlobalsMade, OnlyValues, HasNode, WholeIn, SettledIn
  <2> QED
    BY <2>1, <2>2, <2>3
<1>2. TInv /\ VisitInv /\ EmptyAtFirst /\ NodeInv /\ [Next]_vars
      => (TInv /\ VisitInv /\ EmptyAtFirst /\ NodeInv)'
  BY TInvNext, VisitInvNext, EmptyAtFirstNext, NodeInvNext
<1>3. TInv /\ VisitInv /\ EmptyAtFirst /\ NodeInv => OnlyKnownStrays
  BY StraysAreKnown
<1> QED
  BY <1>1, <1>2, <1>3, PTL DEF Spec


-----------------------------------------------------------------------------
(* The contract speaks of the program with definitions of its own instance,  *)
(* which say the same.                                                       *)

LEMMA SameWords ==
    /\ \A c : Contract!Callee(c) = Callee(c) /\ Contract!NumActual(c) = NumActual(c)
    /\ \A c, k : Contract!Actual(c, k) = Actual(c, k)
    /\ \A f, k : Contract!Shape(f, k) = Shape(f, k)
    /\ \A f : Contract!RetsOf(f) = RetsOf(f)
    /\ \A f, k, p : Contract!FormalAddr(f, k, p) = FormalAddr(f, k, p)
    /\ \A v : Contract!Stored(v) <=> Stored(v)
    /\ \A i, c : Contract!Before(i, c) <=> Before(i, c)
    /\ \A c, k, p : Contract!ActualAddr(c, k, p) = ActualAddr(c, k, p)
    /\ \A f : Contract!Place(f) = Place(f)
    /\ \A c : Contract!DirectCall(c) <=> DirectCall(c)
<1>1. \A c, k : /\ Contract!Callee(c) = Callee(c)
                /\ Contract!NumActual(c) = NumActual(c)
                /\ Contract!Actual(c, k) = Actual(c, k)
  BY DEF Contract!Callee, Callee, Contract!NumActual, NumActual, Contract!Actual, Actual
<1>2. \A f, k, p : /\ Contract!Shape(f, k) = Shape(f, k)
                   /\ Contract!FormalAddr(f, k, p) = FormalAddr(f, k, p)
                   /\ Contract!RetsOf(f) = RetsOf(f)
  BY DEF Contract!Shape, Shape, Contract!FormalAddr, FormalAddr, Contract!Value, Value,
         Contract!RetsOf, RetsOf, Contract!InstsOf, InstsOf
<1>3. \A i, c : /\ Contract!Stored(i) <=> Stored(i)
                /\ Contract!Before(i, c) <=> Before(i, c)
  BY DEF Contract!Stored, Stored, Contract!Before, Before
<1>4. \A c, k, p : Contract!ActualAddr(c, k, p) = ActualAddr(c, k, p)
  BY <1>1 DEF Contract!ActualAddr, ActualAddr
<1>5. \A f : Contract!Place(f) = Place(f)
  BY DEF Contract!Place, Place
<1>6. \A c : Contract!DirectCall(c) <=> DirectCall(c)
  BY <1>1 DEF Contract!DirectCall, DirectCall
<1> QED
  BY <1>1, <1>2, <1>3, <1>4, <1>5, <1>6

LEMMA SameTrees ==
    \A f : Contract!TreePrefix(f) = TreePrefix(f)
<1>1. \A f, k : Contract!HasTree(f, k) <=> HasTree(f, k)
  BY SameWords DEF Contract!HasTree, HasTree
<1>2. \A f : Contract!Positions(f) = Positions(f)
  BY DEF Contract!Positions, Positions
<1> QED
  BY <1>1, <1>2 DEF Contract!TreePrefix, TreePrefix

LEMMA SameNodes ==
    /\ \A v : Contract!ValNode(v) = ValNode(v)
    /\ \A f, k, p : Contract!FIn(f, k, p) = FIn(f, k, p) /\ Contract!FOut(f, k, p) = FOut(f, k, p)
    /\ \A c, f, k, p : /\ Contract!AIn(c, f, k, p) = AIn(c, f, k, p)
                       /\ Contract!AOut(c, f, k, p) = AOut(c, f, k, p)
BY DEF Contract!ValNode, ValNode, Contract!FIn, FIn, Contract!FOut, FOut,
       Contract!AIn, AIn, Contract!AOut, AOut

LEMMA WrittenAtIs ==
    \A f, k, p : Contract!WrittenAt(f, k, p) <=>
                    \E v \in FormalAddr(f, k, p) : v \in WithNode /\ Stored(v)
BY SameWords DEF Contract!WrittenAt, Contract!Variable, WithNode

JustIn(S) == \A e \in S : Contract!Justified(e)

\* What the contract asks of an edge depends on its type.
LEMMA JustifiedByType ==
    /\ \A e : e[3] = "PARAMETER_IN" /\ Contract!InJustified(e[1], e[2]) => Contract!Justified(e)
    /\ \A e : e[3] = "PARAMETER_OUT" /\ Contract!OutJustified(e[1], e[2]) => Contract!Justified(e)
    /\ \A e : e[3] = "CONTROLDEP_ENTRY" /\ e[1][2] = prog.owner[e[2][2]] => Contract!Justified(e)
    /\ \A e : e[3] = "CONTROLDEP_BR" /\ <<e[1][2], e[2][2]>> \in prog.branchDeps
              => Contract!Justified(e)
    /\ \A e : e[3] = "PARAMETER_FIELD" /\ Contract!FieldJustified(e[1], e[2])
              => Contract!Justified(e)
    /\ \A e : e[3] = "ANNO_GLOBAL" /\ e[1][2] \in prog.annotated /\ e[2] = Contract!AnnotationsNode
              => Contract!Justified(e)
BY DEF Contract!Justified

LEMMA DataJustifiedByType ==
    /\ \A e : /\ e[3] \in {"DATA_ARGPASS_IN", "DATA_ARGPASS_OUT",
                            "DATA_ARGPASS_INDIRECT_IN", "DATA_ARGPASS_INDIRECT_OUT"}
              /\ Contract!ArgJustified(e[1], e[2], e[3])
              => Contract!Justified(e)
    /\ \A e : e[3] \in DataDepType \cup {"DATA_GLOBAL_DEF_USE"}
              /\ Contract!DataJustified(e[1][2], e[2][2], e[3])
              => Contract!Justified(e)
BY DEF Contract!Justified, DataDepType

\* A guessed callee has a user with a node.
LEMMA CandidatesAreGuessed ==
    ASSUME TInv, OnlyValues, NEW c, Callee(c) = Indirect, NEW f \in Candidates(c)
    PROVE  Contract!Guessed(c, f)
<1>1. prog.uses \subseteq (Global \cup Func) \X (Inst \cup Global \cup Func)
  BY ProgramTyped DEF WellTyped, TInv
<1>2. <<c, f>> \in prog.matches
  BY DEF Candidates
<1>3. PICK u \in prog.uses : u[1] = f /\ HasNode(u[2])
  BY DEF Candidates, Used
<1>4. u[2] \in WithNode
  BY <1>1, <1>3 DEF OnlyValues, Value
<1> QED
  BY <1>2, <1>3, <1>4, SameWords DEF Contract!Guessed, WithNode

LEMMA InEnds ==
    /\ \A v, c, f, k, p :
          v = c \/ (v \in ActualAddr(c, k, p) /\ (v \in Inst => Before(v, c)))
          => Contract!Justified(<<ValNode(v), AIn(c, f, k, p), "PARAMETER_IN">>)
    /\ \A c, f, j, k, p :
          Callee(c) = f /\ (j = k \/ (j # 0 /\ k # 0 /\ Actual(c, j) = Actual(c, k)))
          => Contract!Justified(<<AIn(c, f, j, p), FIn(f, k, p), "PARAMETER_IN">>)
    /\ \A f, k : Contract!Justified(<<ValNode(f), FIn(f, k, Root), "PARAMETER_IN">>)
    /\ \A f, k, p, v, w :
          v \in FormalAddr(f, k, p) /\ (v = w \/ <<v, w, "DATA_ALIAS">> \in prog.dataDeps)
          => Contract!Justified(<<FIn(f, k, p), ValNode(w), "PARAMETER_IN">>)
<1>1. \A v, c, f, k, p :
          v = c \/ (v \in ActualAddr(c, k, p) /\ (v \in Inst => Before(v, c)))
          => Contract!InJustified(ValNode(v), AIn(c, f, k, p))
  BY SameWords DEF Contract!InJustified, ValNode, AIn
<1>2. \A c, f, j, k, p :
          Callee(c) = f /\ (j = k \/ (j # 0 /\ k # 0 /\ Actual(c, j) = Actual(c, k)))
          => Contract!InJustified(AIn(c, f, j, p), FIn(f, k, p))
  BY SameWords DEF Contract!InJustified, FIn, AIn
<1>3. \A f, k : Contract!InJustified(ValNode(f), FIn(f, k, Root))
  BY DEF Contract!InJustified, ValNode, FIn
<1>4. \A f, k, p, v, w :
          v \in FormalAddr(f, k, p) /\ (v = w \/ <<v, w, "DATA_ALIAS">> \in prog.dataDeps)
          => Contract!InJustified(FIn(f, k, p), ValNode(w))
  BY SameWords DEF Contract!InJustified, ValNode, FIn
<1> QED
  BY <1>1, <1>2, <1>3, <1>4, JustifiedByType

LEMMA OutEnds ==
    /\ \A f, k : Contract!Justified(<<ValNode(f), FOut(f, k, Root), "PARAMETER_OUT">>)
    /\ \A f, k, p, v :
          v \in FormalAddr(f, k, p) /\ Stored(v)
          => Contract!Justified(<<ValNode(v), FOut(f, k, p), "PARAMETER_OUT">>)
    /\ \A c, f, j, k, p :
          Contract!WrittenAt(f, k, p) /\ k # 0 /\ j # 0 /\ Actual(c, j) = Actual(c, k)
          => Contract!Justified(<<FOut(f, k, p), AOut(c, f, j, p), "PARAMETER_OUT">>)
    /\ \A c, f, p : Contract!Justified(<<AOut(c, f, 0, p), FOut(f, 0, p), "PARAMETER_OUT">>)
    /\ \A v, c, f, k, p :
          v = c \/ v \in ActualAddr(c, k, p)
          => Contract!Justified(<<ValNode(v), AOut(c, f, k, p), "PARAMETER_OUT">>)
<1>1. \A f, k : Contract!OutJustified(ValNode(f), FOut(f, k, Root))
  BY DEF Contract!OutJustified, ValNode, FOut
<1>2. \A f, k, p, v : v \in FormalAddr(f, k, p) /\ Stored(v)
          => Contract!OutJustified(ValNode(v), FOut(f, k, p))
  BY SameWords DEF Contract!OutJustified, ValNode, FOut
<1>3. \A c, f, j, k, p :
          Contract!WrittenAt(f, k, p) /\ k # 0 /\ j # 0 /\ Actual(c, j) = Actual(c, k)
          => Contract!OutJustified(FOut(f, k, p), AOut(c, f, j, p))
  BY SameWords DEF Contract!OutJustified, AOut, FOut
<1>4. \A c, f, p : Contract!OutJustified(AOut(c, f, 0, p), FOut(f, 0, p))
  BY DEF Contract!OutJustified, AOut, FOut
<1>5. \A v, c, f, k, p : v = c \/ v \in ActualAddr(c, k, p)
          => Contract!OutJustified(ValNode(v), AOut(c, f, k, p))
  BY SameWords DEF Contract!OutJustified, ValNode, AOut
<1> QED
  BY <1>1, <1>2, <1>3, <1>4, <1>5, JustifiedByType

LEMMA ControlEnds ==
    /\ \A c \in Inst : \A f : DirectCall(c) /\ Callee(c) = f => JustIn(InvokeEdges(c, f))
    /\ \A c, f : Contract!Guessed(c, f)
                 => Contract!Justified(<<ValNode(c), ValNode(f), "IND_CALL">>)
    /\ \A c \in Inst : \A f : prog.kind[c] = "call" /\ Contract!Guessed(c, f)
                 => \A r \in RetsOf(f) :
                       Contract!Justified(<<ValNode(r), ValNode(f), "DATA_INDIRECT_RET">>)
<1>1. \A c, f : DirectCall(c) /\ Callee(c) = f
                => Contract!Justified(<<ValNode(c), ValNode(f), "CONTROLDEP_CALLINV">>)
  BY SameWords DEF Contract!Justified, Contract!InvokeJustified, ValNode
<1>2. \A c, f : \A r \in RetsOf(f) : \A t \in {"CONTROLDEP_CALLRET", "DATA_RET"} :
          DirectCall(c) /\ Callee(c) = f => Contract!Justified(<<ValNode(r), ValNode(c), t>>)
  BY SameWords DEF Contract!Justified, Contract!InvokeJustified, ValNode, RetsOf, InstsOf
<1>3. \A c, f : Contract!Guessed(c, f)
                 => Contract!Justified(<<ValNode(c), ValNode(f), "IND_CALL">>)
  BY DEF Contract!Justified, ValNode
<1>4. \A c \in Inst : \A f : prog.kind[c] = "call" /\ Contract!Guessed(c, f)
                 => \A r \in RetsOf(f) :
                       Contract!Justified(<<ValNode(r), ValNode(f), "DATA_INDIRECT_RET">>)
  BY SameWords DEF Contract!Justified, ValNode
<1> QED
  BY <1>1, <1>2, <1>3, <1>4 DEF InvokeEdges, JustIn

\* What the contract asks of an edge is read off the program alone.
LEMMA JustifiedFixed ==
    ASSUME prog' = prog
    PROVE  /\ \A e : Contract!Justified(e)' <=> Contract!Justified(e)
           /\ \A f, k, p : Contract!WrittenAt(f, k, p)' <=> Contract!WrittenAt(f, k, p)
<1>1. /\ \A c : Contract!Callee(c)' = Contract!Callee(c)
      /\ \A c, k : Contract!Actual(c, k)' = Contract!Actual(c, k)
      /\ \A f, k, p : Contract!FormalAddr(f, k, p)' = Contract!FormalAddr(f, k, p)
      /\ \A v : Contract!Stored(v)' <=> Contract!Stored(v)
      /\ \A i, c : Contract!Before(i, c)' <=> Contract!Before(i, c)
  BY DEF Contract!Callee, Contract!Actual, Contract!FormalAddr, Contract!Value,
         Contract!Stored, Contract!Before
<1>2. \A c, k, p : Contract!ActualAddr(c, k, p)' = Contract!ActualAddr(c, k, p)
  BY <1>1 DEF Contract!ActualAddr
<1>3. \A c : Contract!DirectCall(c)' <=> Contract!DirectCall(c)
  BY <1>1 DEF Contract!DirectCall
<1>4. \A f, k, p : Contract!WrittenAt(f, k, p)' <=> Contract!WrittenAt(f, k, p)
  BY <1>1 DEF Contract!WrittenAt, Contract!Variable
<1>5. \A s, d, t : Contract!InvokeJustified(s, d, t)' <=> Contract!InvokeJustified(s, d, t)
  BY <1>1, <1>3 DEF Contract!InvokeJustified
<1>6. \A s, d : Contract!InJustified(s, d)' <=> Contract!InJustified(s, d)
  <2> TAKE s, d
  <2>1. /\ Contract!ActualAddr(d[2], d[4], d[5])' = Contract!ActualAddr(d[2], d[4], d[5])
        /\ Contract!Before(s[2], d[2])' <=> Contract!Before(s[2], d[2])
        /\ Contract!Callee(s[2])' = Contract!Callee(s[2])
        /\ Contract!Actual(s[2], s[4])' = Contract!Actual(s[2], s[4])
        /\ Contract!Actual(s[2], d[3])' = Contract!Actual(s[2], d[3])
        /\ Contract!FormalAddr(s[2], s[3], s[4])' = Contract!FormalAddr(s[2], s[3], s[4])
    BY <1>1, <1>2
  <2> QED
    BY <2>1 DEF Contract!InJustified
<1>7. \A s, d : Contract!OutJustified(s, d)' <=> Contract!OutJustified(s, d)
  BY <1>1, <1>2, <1>4 DEF Contract!OutJustified
<1>8. /\ \A c, f : Contract!Guessed(c, f)' <=> Contract!Guessed(c, f)
      /\ \A f, k, p, q : Contract!Hangs(f, k, p, q)' <=> Contract!Hangs(f, k, p, q)
      /\ \A v, t : Contract!Passed(v, t)' <=> Contract!Passed(v, t)
      /\ \A f : Contract!RetsOf(f)' = Contract!RetsOf(f)
  BY <1>1 DEF Contract!Guessed, Contract!Hangs, Contract!Passed, Contract!Shape,
              Contract!RetsOf, Contract!InstsOf
<1>9. \A s, d : Contract!FieldJustified(s, d)' <=> Contract!FieldJustified(s, d)
  BY <1>1, <1>8 DEF Contract!FieldJustified
<1>10. \A s, d, t : Contract!ArgJustified(s, d, t)' <=> Contract!ArgJustified(s, d, t)
  <2> TAKE s, d, t
  <2>1. /\ Contract!Passed(s, d)' <=> Contract!Passed(s, d)
        /\ Contract!Passed(d, s)' <=> Contract!Passed(d, s)
        /\ Contract!Guessed(d[2], d[3])' <=> Contract!Guessed(d[2], d[3])
        /\ Contract!Guessed(s[2], s[3])' <=> Contract!Guessed(s[2], s[3])
        /\ Contract!Callee(d[2])' = Contract!Callee(d[2])
        /\ Contract!Callee(s[2])' = Contract!Callee(s[2])
    BY <1>1, <1>8
  <2> QED
    BY <2>1 DEF Contract!ArgJustified
<1>11. \A s, d, t : Contract!DataJustified(s, d, t)' <=> Contract!DataJustified(s, d, t)
  BY DEF Contract!DataJustified
<1>12. \A e : Contract!Justified(e)' <=> Contract!Justified(e)
  BY <1>5, <1>6, <1>7, <1>8, <1>9, <1>10, <1>11 DEF Contract!Justified
<1> QED
  BY <1>4, <1>12

LEMMA JustKept ==
    ASSUME prog' = prog, JustInv, JustIn(edges' \ edges) PROVE JustInv'
BY JustifiedFixed DEF JustInv, JustIn

\* An alias edge only comes from the data dependency pass.
LEMMA AliasInvNext ==
    ASSUME TInv, AliasInv, [Next]_vars PROVE AliasInv'
<1>1. prog' = prog
  BY EdgesGrow
<1> SUFFICES ASSUME NEW e \in edges' \ edges, e[3] = "DATA_ALIAS"
             PROVE  <<e[1][2], e[2][2], "DATA_ALIAS">> \in prog.dataDeps
  BY <1>1 DEF AliasInv
<1>2. CASE BuildGlobals \/ LeaveFunction \/ Done \/ UNCHANGED vars
  BY <1>2 DEF BuildGlobals, LeaveFunction, Done, vars, state
<1>3. CASE BuildFunction \/ BuildGlobalAnnotations
  BY <1>3 DEF BuildFunction, BuildGlobalAnnotations, FormalFields
<1>4. CASE BuildCallWrappers
  BY <1>4 DEF BuildCallWrappers, CallFields, ActualFields
<1>5. CASE AddDataDependencies
  <2>1. prog.dataDeps \subseteq Inst \X (Inst \cup Func) \X DataDepType
    BY ProgramTyped DEF WellTyped, TInv
  <2>2. PICK d \in prog.dataDeps : e = <<ValNode(d[1]), ValNode(d[2]), d[3]>>
    BY <1>5 DEF AddDataDependencies
  <2>3. d = <<d[1], d[2], d[3]>>
    BY <2>1
  <2> QED
    BY <2>2, <2>3 DEF ValNode
<1>6. CASE ConnectIntra
  BY <1>6 DEF ConnectIntra, ControlEdges, FormalInEdges, FormalOutEdges
<1>7. ASSUME NEW c \in Inst, ConnectCall(c) PROVE FALSE
  <2> DEFINE f == Callee(c)
  <2>1. e \in CallEdges(c, f)
    BY <1>7 DEF ConnectCall
  <2> HIDE DEF f
  <2>2. e \notin RootEdges(c, f) /\ e \notin InvokeEdges(c, f) /\ e \notin RetTreeEdges(c, f)
    BY DEF RootEdges, InvokeEdges, RetTreeEdges
  <2>3. e \notin VarEdges(c, f)
    BY DEF VarEdges, ActualVarEdges
  <2>4. e \notin ArgPassEdges(c, f, "DATA_ARGPASS_IN", "DATA_ARGPASS_OUT")
    BY DEF ArgPassEdges
  <2>5. e \notin TreeEdges(c, f)
    <3>1. \A m : e \notin InTreeEdges(c, f, m[1], m[2])
      BY DEF InTreeEdges
    <3>2. ASSUME NEW m, NEW d \in OutTreeEdges(c, f, m[1], m[2]) PROVE d # e
      <4>1. PICK p \in Shape(f, m[2]) :
                /\ <<f, m[2], p>> \in tagged
                /\ d = <<FOut(f, m[2], p), AOut(c, f, m[1], p), "PARAMETER_OUT">>
        BY OutTreeEdge
      <4> QED
        BY <4>1
    <3> QED
      BY <3>1, <3>2 DEF TreeEdges
  <2> QED
    BY <2>1, <2>2, <2>3, <2>4, <2>5 DEF CallEdges
<1>8. ASSUME NEW c \in Inst, ConnectIndirect(c) PROVE FALSE
  <2>1. PICK f : e \in IndirectEdges(c, f)
    BY <1>8 DEF ConnectIndirect
  <2>2. e \notin CallFields(c, f)
    BY DEF CallFields, ActualFields
  <2>3. e \notin ArgPassEdges(c, f, "DATA_ARGPASS_INDIRECT_IN", "DATA_ARGPASS_INDIRECT_OUT")
    BY DEF ArgPassEdges
  <2> QED
    BY <2>1, <2>2, <2>3 DEF IndirectEdges
<1>9. ASSUME NEW c \in Inst, SkipCall(c) PROVE FALSE
  BY <1>9 DEF SkipCall, state
<1> QED
  BY <1>2, <1>3, <1>4, <1>5, <1>6, <1>7, <1>8, <1>9 DEF Next

\* A tag is only set for a variable with a node that is stored to.
LEMMA TagWrittenNext ==
    ASSUME TInv, OnlyValues, TagWritten, [Next]_vars PROVE TagWritten'
<1>1. prog' = prog
  BY EdgesGrow
<1> SUFFICES ASSUME NEW t \in tagged' \ tagged PROVE Contract!WrittenAt(t[1], t[2], t[3])
  BY <1>1, JustifiedFixed DEF TagWritten
<1>2. ConnectIntra
  BY TagsGrow
<1>3. PICK k : t \in Tags(F, k)
  BY <1>2 DEF ConnectIntra
<1>4. PICK x \in Written(F, k) : t = <<F, k, x[1]>>
  BY <1>3 DEF Tags
<1>5. /\ x[2] \in Value /\ x[2] \in FormalAddr(F, k, x[1])
      /\ HasNode(x[2]) /\ Stored(x[2])
  BY DEF Written, FormalVars
<1>6. x[2] \in WithNode
  BY <1>5 DEF OnlyValues
<1> QED
  BY <1>4, <1>5, <1>6, WrittenAtIs

-----------------------------------------------------------------------------
(* Every edge is justified.  *)

\* A field hangs from its parent, in the trees of a function or of a call that
\* may reach the function.
LEMMA FieldEnds ==
    /\ \A f, k : \A p \in Below(f, k) :
          /\ Contract!FieldJustified(FIn(f, k, Parent[p]), FIn(f, k, p))
          /\ Contract!FieldJustified(FOut(f, k, Parent[p]), FOut(f, k, p))
    /\ \A c, f, k : Callee(c) = f \/ Contract!Guessed(c, f) =>
          \A p \in Below(f, k) :
             /\ Contract!FieldJustified(AIn(c, f, k, Parent[p]), AIn(c, f, k, p))
             /\ Contract!FieldJustified(AOut(c, f, k, Parent[p]), AOut(c, f, k, p))
<1>1. \A f, k : \A p \in Below(f, k) : Contract!Hangs(f, k, Parent[p], p)
  BY SameWords DEF Below, Contract!Hangs
<1> QED
  BY <1>1, SameWords DEF Contract!FieldJustified, FIn, FOut, AIn, AOut

LEMMA FieldsJustified ==
    /\ \A f, k : JustIn(FormalFields(f, k))
    /\ \A c, f : Callee(c) = f \/ Contract!Guessed(c, f) => JustIn(CallFields(c, f))
<1>1. \A f, k : JustIn(FormalFields(f, k))
  BY FieldEnds, JustifiedByType DEF FormalFields, JustIn
<1>2. \A c, f, k : Callee(c) = f \/ Contract!Guessed(c, f) => JustIn(ActualFields(c, f, k))
  BY FieldEnds, JustifiedByType DEF ActualFields, JustIn
<1> QED
  BY <1>1, <1>2 DEF CallFields, JustIn

\* An argument is passed to the root of the tree that was made for its value.
LEMMA ArgPassJustified ==
    \A c, f :
       /\ Callee(c) = f => JustIn(ArgPassEdges(c, f, "DATA_ARGPASS_IN", "DATA_ARGPASS_OUT"))
       /\ Contract!Guessed(c, f) =>
             JustIn(ArgPassEdges(c, f, "DATA_ARGPASS_INDIRECT_IN", "DATA_ARGPASS_INDIRECT_OUT"))
<1> TAKE c, f
<1>1. \A k : \A j \in TreeOf(c, f, k) :
          /\ Contract!Passed(ValNode(Actual(c, k)), AIn(c, f, j, Root))
          /\ Contract!Passed(ValNode(Actual(c, k)), AOut(c, f, j, Root))
  BY SameWords DEF TreeOf, Contract!Passed, ValNode, AIn, AOut
<1>2. ASSUME Callee(c) = f, NEW k, NEW j \in TreeOf(c, f, k)
      PROVE  /\ Contract!ArgJustified(ValNode(Actual(c, k)), AIn(c, f, j, Root), "DATA_ARGPASS_IN")
             /\ Contract!ArgJustified(AOut(c, f, j, Root), ValNode(Actual(c, k)), "DATA_ARGPASS_OUT")
  BY <1>1, <1>2, SameWords DEF Contract!ArgJustified, AIn, AOut
<1>3. ASSUME Contract!Guessed(c, f), NEW k, NEW j \in TreeOf(c, f, k)
      PROVE  /\ Contract!ArgJustified(ValNode(Actual(c, k)), AIn(c, f, j, Root), "DATA_ARGPASS_INDIRECT_IN")
             /\ Contract!ArgJustified(AOut(c, f, j, Root), ValNode(Actual(c, k)), "DATA_ARGPASS_INDIRECT_OUT")
  BY <1>1, <1>3 DEF Contract!ArgJustified, AIn, AOut
<1>4. ASSUME NEW in, NEW out, NEW e \in ArgPassEdges(c, f, in, out)
      PROVE  \E k : \E j \in TreeOf(c, f, k) :
                \/ e = <<ValNode(Actual(c, k)), AIn(c, f, j, Root), in>>
                \/ e = <<AOut(c, f, j, Root), ValNode(Actual(c, k)), out>>
  BY <1>4 DEF ArgPassEdges
<1>5. ASSUME Callee(c) = f, NEW e \in ArgPassEdges(c, f, "DATA_ARGPASS_IN", "DATA_ARGPASS_OUT")
      PROVE  Contract!Justified(e)
  <2>1. PICK k : \E j \in TreeOf(c, f, k) :
                \/ e = <<ValNode(Actual(c, k)), AIn(c, f, j, Root), "DATA_ARGPASS_IN">>
                \/ e = <<AOut(c, f, j, Root), ValNode(Actual(c, k)), "DATA_ARGPASS_OUT">>
    BY <1>4, <1>5
  <2> QED
    BY <1>2, <1>5, <2>1, DataJustifiedByType
<1>6. ASSUME Contract!Guessed(c, f),
             NEW e \in ArgPassEdges(c, f, "DATA_ARGPASS_INDIRECT_IN", "DATA_ARGPASS_INDIRECT_OUT")
      PROVE  Contract!Justified(e)
  <2>1. PICK k : \E j \in TreeOf(c, f, k) :
                \/ e = <<ValNode(Actual(c, k)), AIn(c, f, j, Root), "DATA_ARGPASS_INDIRECT_IN">>
                \/ e = <<AOut(c, f, j, Root), ValNode(Actual(c, k)), "DATA_ARGPASS_INDIRECT_OUT">>
    BY <1>4, <1>6
  <2> QED
    BY <1>3, <1>6, <2>1, DataJustifiedByType
<1> QED
  BY <1>5, <1>6 DEF JustIn

\* connectFormalInTreeWithAddrVars: what a tree node feeds is one of its address
\* variables, or may alias one.
LEMMA FormalInJustified ==
    ASSUME AliasInv, NEW f, NEW k PROVE JustIn(FormalInEdges(f, k))
<1> SUFFICES ASSUME NEW e \in FormalInEdges(f, k) PROVE Contract!Justified(e)
  BY DEF JustIn
<1> DEFINE aliased == {y \in Shape(f, k) \X Inst :
              /\ \E v \in FormalAddr(f, k, y[1]) :
                    HasNode(v) /\ <<ValNode(v), ValNode(y[2]), "DATA_ALIAS">> \in edges
              /\ y[1] # Root => y[2] \notin FormalAddr(f, k, Parent[y[1]])}
<1>1. \E x \in FormalVars(f, k) \cup aliased : e = <<FIn(f, k, x[1]), ValNode(x[2]), "PARAMETER_IN">>
  BY DEF FormalInEdges
<1>2. \A x \in FormalVars(f, k) : x[2] \in FormalAddr(f, k, x[1])
  BY DEF FormalVars
<1>3. \A v, w : <<ValNode(v), ValNode(w), "DATA_ALIAS">> \in edges
                => <<v, w, "DATA_ALIAS">> \in prog.dataDeps
  BY DEF AliasInv, ValNode
<1>4. \A x \in aliased : \E v \in FormalAddr(f, k, x[1]) : <<v, x[2], "DATA_ALIAS">> \in prog.dataDeps
  BY <1>3
<1> HIDE DEF aliased
<1>5. PICK x \in FormalVars(f, k) \cup aliased : e = <<FIn(f, k, x[1]), ValNode(x[2]), "PARAMETER_IN">>
  BY <1>1
<1>6. \E v \in FormalAddr(f, k, x[1]) : v = x[2] \/ <<v, x[2], "DATA_ALIAS">> \in prog.dataDeps
  BY <1>2, <1>4
<1> QED
  BY <1>5, <1>6, InEnds

LEMMA IntraJustified ==
    ASSUME TInv, AliasInv, NEW f, NEW k
    PROVE  /\ JustIn(ControlEdges(f))
           /\ JustIn(FormalInEdges(f, k))
           /\ JustIn(FormalOutEdges(f, k))
           /\ Contract!Justified(<<ValNode(f), FIn(f, k, Root), "PARAMETER_IN">>)
           /\ Contract!Justified(<<ValNode(f), FOut(f, k, Root), "PARAMETER_OUT">>)
<1>1. JustIn(ControlEdges(f))
  <2>1. \A i \in InstsOf(f) : Contract!Justified(<<ValNode(f), ValNode(i), "CONTROLDEP_ENTRY">>)
    BY JustifiedByType DEF ValNode, InstsOf
  <2>2. prog.branchDeps \subseteq Inst \X Inst
    BY ProgramTyped DEF WellTyped, TInv
  <2>3. \A b \in prog.branchDeps : Contract!Justified(<<ValNode(b[1]), ValNode(b[2]), "CONTROLDEP_BR">>)
    BY <2>2, JustifiedByType DEF ValNode
  <2> QED
    BY <2>1, <2>3 DEF ControlEdges, JustIn
<1>2. JustIn(FormalOutEdges(f, k))
  <2>1. \A x \in Written(f, k) : x[2] \in FormalAddr(f, k, x[1]) /\ Stored(x[2])
    BY DEF Written, FormalVars
  <2>2. \A x \in Written(f, k) :
            Contract!Justified(<<ValNode(x[2]), FOut(f, k, x[1]), "PARAMETER_OUT">>)
    BY <2>1, OutEnds
  <2> QED
    BY <2>2 DEF FormalOutEdges, JustIn
<1> QED
  BY <1>1, <1>2, FormalInJustified, InEnds, OutEnds

\* connectCallerAndCallee: a variable feeds the tree of the argument it was
\* derived from, and the trees it links were made for one value.
LEMMA VarEdgesJustified ==
    ASSUME NEW c, NEW f PROVE JustIn(RootEdges(c, f)) /\ JustIn(VarEdges(c, f))
<1>1. JustIn(RootEdges(c, f))
  BY InEnds, OutEnds DEF RootEdges, JustIn
<1>2. \A k : JustIn(ActualVarEdges(c, f, k))
  <2> TAKE k
  <2>1. \A x \in ActualVars(c, f, k) : x[2] \in ActualAddr(c, k, x[1])
    BY DEF ActualVars
  <2>2. \A x \in ActualVars(c, f, k) : (x[2] \in Inst => Before(x[2], c)) =>
            Contract!Justified(<<ValNode(x[2]), AIn(c, f, k, x[1]), "PARAMETER_IN">>)
    BY <2>1, InEnds
  <2>3. \A x \in ActualVars(c, f, k) :
            Contract!Justified(<<ValNode(x[2]), AOut(c, f, k, x[1]), "PARAMETER_OUT">>)
    BY <2>1, OutEnds
  <2> QED
    BY <2>2, <2>3 DEF ActualVarEdges, JustIn
<1> QED
  BY <1>1, <1>2 DEF VarEdges, JustIn

LEMMA TreeEdgesJustified ==
    ASSUME TInv, TagWritten, NEW c \in Inst, Callee(c) \in Func
    PROVE  JustIn(TreeEdges(c, Callee(c))) /\ JustIn(RetTreeEdges(c, Callee(c)))
<1> DEFINE f == Callee(c)
<1>1. \A m \in Joined(c, f) : m[1] # 0 /\ m[2] # 0 /\ Actual(c, m[1]) = Actual(c, m[2])
  <2> SUFFICES ASSUME NEW m \in Joined(c, f)
               PROVE  m[1] # 0 /\ m[2] # 0 /\ Actual(c, m[1]) = Actual(c, m[2])
    OBVIOUS
  <2>1. m[2] \in Positions(f) /\ m[2] \in Nat /\ m[1] \in TreeOf(c, f, m[2])
    BY JoinedTyped DEF TInv
  <2>2. m[1] \in 1 .. m[2] /\ Actual(c, m[1]) = Actual(c, m[2])
    BY <2>1, TreeOfIsEarlier DEF TInv
  <2>3. m[2] # 0
    BY <2>1 DEF Positions
  <2> QED
    BY <2>1, <2>2, <2>3
<1>2. \A k, p : <<f, k, p>> \in tagged => Contract!WrittenAt(f, k, p)
  BY DEF TagWritten
<1>3. JustIn(TreeEdges(c, f))
  <2> SUFFICES ASSUME NEW m \in Joined(c, f)
               PROVE  /\ JustIn(InTreeEdges(c, f, m[1], m[2]))
                      /\ JustIn(OutTreeEdges(c, f, m[1], m[2]))
    BY DEF TreeEdges, JustIn
  <2>1. JustIn(InTreeEdges(c, f, m[1], m[2]))
    BY <1>1, InEnds DEF InTreeEdges, JustIn
  <2>2. ASSUME NEW d \in OutTreeEdges(c, f, m[1], m[2]) PROVE Contract!Justified(d)
    <3>1. PICK p \in Shape(f, m[2]) :
              /\ <<f, m[2], p>> \in tagged
              /\ d = <<FOut(f, m[2], p), AOut(c, f, m[1], p), "PARAMETER_OUT">>
      BY OutTreeEdge
    <3> QED
      BY <1>1, <1>2, <3>1, OutEnds
  <2> QED
    BY <2>1, <2>2 DEF JustIn
<1>4. JustIn(RetTreeEdges(c, f))
  BY InEnds, OutEnds DEF RetTreeEdges, JustIn
<1> QED
  BY <1>3, <1>4

LEMMA JustInvNext ==
    ASSUME TInv, VisitInv, OnlyValues, AliasInv, TagWritten, JustInv, [Next]_vars PROVE JustInv'
<1>1. prog' = prog
  BY EdgesGrow
<1> SUFFICES ASSUME NEW e \in edges' \ edges PROVE Contract!Justified(e)
  BY <1>1, JustKept DEF JustIn
<1>2. CASE BuildGlobals \/ LeaveFunction \/ Done \/ UNCHANGED vars
  BY <1>2 DEF BuildGlobals, LeaveFunction, Done, vars, state
<1>3. CASE BuildFunction
  <2>1. PICK k : e \in FormalFields(F, k)
    BY <1>3 DEF BuildFunction
  <2> QED
    BY <2>1, FieldsJustified DEF JustIn
<1>4. CASE BuildCallWrappers
  <2>1. PICK c : e \in CallFields(c, Callee(c))
    BY <1>4 DEF BuildCallWrappers
  <2> QED
    BY <2>1, FieldsJustified DEF JustIn
<1>5. CASE BuildGlobalAnnotations
  <2>1. PICK v \in prog.annotated : e = <<ValNode(v), AnnotationsNode, "ANNO_GLOBAL">>
    BY <1>5 DEF BuildGlobalAnnotations
  <2> QED
    BY <2>1, JustifiedByType DEF ValNode, AnnotationsNode, Contract!AnnotationsNode
<1>6. CASE AddDataDependencies
  <2>1. /\ prog.dataDeps \subseteq Inst \X (Inst \cup Func) \X DataDepType
        /\ prog.uses \subseteq (Global \cup Func) \X (Inst \cup Global \cup Func)
        /\ prog.inits \subseteq Global \X Global
    BY ProgramTyped DEF WellTyped, TInv
  <2>2. \/ \E d \in prog.dataDeps : e = <<ValNode(d[1]), ValNode(d[2]), d[3]>>
        \/ \E u \in prog.uses : u[1] \in Global /\ e = <<ValNode(u[1]), ValNode(u[2]), "DATA_DEF_USE">>
        \/ \E u \in prog.inits : e = <<ValNode(u[2]), ValNode(u[1]), "DATA_GLOBAL_DEF_USE">>
    BY <1>6 DEF AddDataDependencies
  <2>3. e[3] \in DataDepType \cup {"DATA_GLOBAL_DEF_USE"}
    BY <2>1, <2>2 DEF DataDepType
  <2>4. \A d \in prog.dataDeps : d = <<d[1], d[2], d[3]>>
    BY <2>1
  <2>5. /\ \A u \in prog.uses : u = <<u[1], u[2]>>
        /\ \A u \in prog.inits : u = <<u[1], u[2]>>
    BY <2>1
  <2>6. Contract!DataJustified(e[1][2], e[2][2], e[3])
    BY <2>2, <2>4, <2>5 DEF Contract!DataJustified, ValNode
  <2> QED
    BY <2>3, <2>6, DataJustifiedByType
<1>7. CASE ConnectIntra
  <2>1. \/ e \in ControlEdges(F)
        \/ \E k : \/ e = <<ValNode(F), FIn(F, k, Root), "PARAMETER_IN">>
                  \/ e = <<ValNode(F), FOut(F, k, Root), "PARAMETER_OUT">>
                  \/ e \in FormalInEdges(F, k)
                  \/ e \in FormalOutEdges(F, k)
    BY <1>7 DEF ConnectIntra
  <2> QED
    BY <2>1, IntraJustified DEF JustIn
<1>8. ASSUME NEW c \in Inst, ConnectCall(c) PROVE Contract!Justified(e)
  <2>1. Callee(c) \in Func
    BY <1>8 DEF ConnectCall, TInv, WrappedDirect
  <2>2. DirectCall(c)
    <3>1. c \in CallsOf(F)
      BY <1>8 DEF ConnectCall, NextCall, VisitInv
    <3> QED
      BY <2>1, <3>1 DEF CallsOf, DirectCall
  <2>3. e \in CallEdges(c, Callee(c))
    BY <1>8 DEF ConnectCall
  <2>4. /\ JustIn(RootEdges(c, Callee(c)))
        /\ JustIn(VarEdges(c, Callee(c)))
        /\ JustIn(ArgPassEdges(c, Callee(c), "DATA_ARGPASS_IN", "DATA_ARGPASS_OUT"))
        /\ JustIn(InvokeEdges(c, Callee(c)))
        /\ JustIn(TreeEdges(c, Callee(c)))
        /\ JustIn(RetTreeEdges(c, Callee(c)))
    BY <2>1, <2>2, VarEdgesJustified, ArgPassJustified, ControlEnds, TreeEdgesJustified
  <2> QED
    BY <2>3, <2>4 DEF CallEdges, JustIn
<1>9. ASSUME NEW c \in Inst, ConnectIndirect(c) PROVE Contract!Justified(e)
  <2>1. PICK f \in Candidates(c) : e \in IndirectEdges(c, f)
    BY <1>9 DEF ConnectIndirect
  <2>5. Contract!Guessed(c, f)
    BY <1>9, <2>1, CandidatesAreGuessed DEF ConnectIndirect
  <2>6. prog.kind[c] = "call"
    BY <1>9 DEF ConnectIndirect, NextCall, VisitInv, CallsOf
  <2>2. Contract!Justified(<<ValNode(c), ValNode(f), "IND_CALL">>)
    BY <2>5, ControlEnds
  <2>3. \A r \in RetsOf(f) : Contract!Justified(<<ValNode(r), ValNode(f), "DATA_INDIRECT_RET">>)
    BY <2>5, <2>6, ControlEnds
  <2>4. /\ JustIn(CallFields(c, f))
        /\ JustIn(ArgPassEdges(c, f, "DATA_ARGPASS_INDIRECT_IN", "DATA_ARGPASS_INDIRECT_OUT"))
    BY <2>5, FieldsJustified, ArgPassJustified
  <2> QED
    BY <2>1, <2>2, <2>3, <2>4 DEF IndirectEdges, JustIn
<1>10. ASSUME NEW c \in Inst, SkipCall(c) PROVE FALSE
  BY <1>10 DEF SkipCall, state
<1> QED
  BY <1>2, <1>3, <1>4, <1>5, <1>6, <1>7, <1>8, <1>9, <1>10 DEF Next

-----------------------------------------------------------------------------
(* What is complete.  *)

\* Only its visit makes a function visited.
LEMMA NewlyVisited ==
    ASSUME TInv, VisitInv, [Next]_vars, NEW f \in Func, Visited(f)'
    PROVE  Visited(f) \/ (ConnectIntra /\ f = F)
<1>1. TInv' /\ prog' = prog
  BY TInvNext, EdgesGrow
<1>2. Place(f)' = Place(f) /\ Place(f) \in 1 .. Len(prog.order) /\ prog.order[Place(f)] = f
  BY <1>1, PlaceFixed, PlaceOfFunction DEF TInv
<1>3. cur \in 1 .. Len(prog.order) /\ Len(prog.order) \in Nat
  BY OrderNonEmpty DEF TInv, TypeOK
<1>4. CASE BuildGlobals \/ BuildFunction \/ BuildCallWrappers \/ BuildGlobalAnnotations
  <2>1. pc' \in {"functions", "callsites", "annotations", "data"}
    BY <1>4 DEF BuildGlobals, BuildFunction, BuildCallWrappers, BuildGlobalAnnotations, Advance
  <2> QED
    BY <2>1 DEF Visited
<1>5. CASE AddDataDependencies
  <2>1. pc' = "intra" /\ cur' = 1
    BY <1>5 DEF AddDataDependencies, VisitInv
  <2> QED
    BY <1>2, <2>1 DEF Visited
<1>6. CASE ConnectIntra
  <2>1. pc = "intra" /\ pc' = "inter" /\ cur' = cur
    BY <1>6 DEF ConnectIntra
  <2>2. F' = F
    BY <1>1, <2>1 DEF F
  <2> QED
    BY <1>2, <1>6, <2>1, <2>2 DEF Visited
<1>7. CASE \E c \in Inst : ConnectCall(c) \/ ConnectIndirect(c) \/ SkipCall(c)
  BY <1>1, <1>2, <1>7 DEF ConnectCall, ConnectIndirect, SkipCall, NextCall, Visited, F
<1>8. CASE LeaveFunction
  <2>1. pc = "inter"
    BY <1>8 DEF LeaveFunction
  <2>2. Place(f) <= cur
    BY <1>2, <1>3, <1>8 DEF LeaveFunction, Visited
  <2>3. Place(f) = cur => f = F
    BY <1>2 DEF F
  <2> QED
    BY <1>2, <1>3, <2>1, <2>2, <2>3 DEF Visited
<1>9. CASE Done \/ UNCHANGED vars
  BY <1>1, <1>2, <1>9 DEF Done, vars, state, Visited, F
<1> QED
  BY <1>4, <1>5, <1>6, <1>7, <1>8, <1>9 DEF Next

LEMMA EntryInvNext ==
    ASSUME TInv, VisitInv, EntryInv, [Next]_vars PROVE EntryInv'
<1>1. prog' = prog /\ edges \subseteq edges'
  BY EdgesGrow
<1>2. \A f : ControlEdges(f)' = ControlEdges(f)
  BY <1>1 DEF ControlEdges, InstsOf, ValNode
<1> SUFFICES ASSUME NEW f \in Func, Visited(f)' PROVE ControlEdges(f) \subseteq edges'
  BY <1>2 DEF EntryInv
<1>3. CASE Visited(f)
  BY <1>1, <1>3 DEF EntryInv
<1>4. CASE ConnectIntra /\ f = F
  BY <1>4 DEF ConnectIntra
<1> QED
  BY <1>3, <1>4, NewlyVisited

\* The data dependency pass has run when functions are visited.
LEMMA AliasMadeNext ==
    ASSUME TInv, AliasMade, [Next]_vars PROVE AliasMade'
<1>1. prog' = prog /\ edges \subseteq edges'
  BY EdgesGrow
<1>2. \A v : ValNode(v)' = ValNode(v)
  BY DEF ValNode
<1>3. CASE AddDataDependencies
  <2>1. \A d \in prog.dataDeps : <<ValNode(d[1]), ValNode(d[2]), d[3]>> \in edges'
    BY <1>3 DEF AddDataDependencies
  <2> QED
    BY <1>1, <2>1 DEF AliasMade, ValNode
<1>4. CASE ~AddDataDependencies
  <2>1. pc' \in {"intra", "inter", "done"} => pc \in {"intra", "inter", "done"}
    BY <1>4 DEF Next, BuildGlobals, BuildFunction, BuildCallWrappers, BuildGlobalAnnotations,
                ConnectIntra, ConnectCall, ConnectIndirect, SkipCall, NextCall, LeaveFunction,
                Done, vars, Advance
  <2> QED
    BY <1>1, <2>1 DEF AliasMade, ValNode
<1> QED
  BY <1>3, <1>4

LEMMA FedFixed ==
    ASSUME prog' = prog
    PROVE  \A f, k, p : Contract!Fed(f, k, p)' = Contract!Fed(f, k, p)
<1>1. \A f, k, p : Contract!FormalAddr(f, k, p)' = Contract!FormalAddr(f, k, p)
  BY DEF Contract!FormalAddr, Contract!Value
<1>2. \A f, k, p : Contract!Variable(f, k, p)' = Contract!Variable(f, k, p)
  BY <1>1 DEF Contract!Variable
<1> QED
  BY <1>1, <1>2 DEF Contract!Fed

\* connectFormalInTreeWithAddrVars reads the alias edges when they are there.
LEMMA FedInvNext ==
    ASSUME TInv, VisitInv, NodeInv, AliasMade, FedInv, [Next]_vars PROVE FedInv'
<1>1. prog' = prog /\ edges \subseteq edges'
  BY EdgesGrow
<1>2. /\ \A f : TreePrefix(f)' = TreePrefix(f)
      /\ \A f, k : Shape(f, k)' = Shape(f, k)
      /\ \A f, k, p : Contract!Fed(f, k, p)' = Contract!Fed(f, k, p)
  BY <1>1, ProgramFixed, FedFixed DEF Shape
<1> SUFFICES ASSUME NEW f \in Func, Visited(f)', NEW k \in TreePrefix(f),
                    NEW p \in Shape(f, k), NEW w \in Contract!Fed(f, k, p)
             PROVE  <<FIn(f, k, p), ValNode(w), "PARAMETER_IN">> \in edges'
  BY <1>2 DEF FedInv, FIn, ValNode
<1>3. CASE Visited(f)
  BY <1>1, <1>3 DEF FedInv
<1>4. CASE ConnectIntra /\ f = F
  <2>1. FormalInEdges(f, k) \subseteq edges'
    BY <1>4 DEF ConnectIntra, Reached
  <2>2. /\ pc = "intra" /\ ProgOK
        /\ prog.dataDeps \subseteq Inst \X (Inst \cup Func) \X DataDepType
    BY <1>4, ProgramTyped DEF ConnectIntra, TInv, WellTyped
  <2>3. \A v \in WithNode : HasNode(v)
    BY <2>2, AllMade DEF NodeInv, HasNode
  <2>4. \A v \in Contract!Variable(f, k, p) : v \in FormalAddr(f, k, p) /\ HasNode(v)
    BY <2>3, SameWords DEF Contract!Variable, WithNode
  <2>5. CASE w \in Contract!Variable(f, k, p)
    <3>1. <<p, w>> \in FormalVars(f, k)
      BY <2>4, <2>5 DEF FormalVars, FormalAddr
    <3> QED
      BY <2>1, <3>1 DEF FormalInEdges
  <2>6. CASE w \notin Contract!Variable(f, k, p)
    <3>1. /\ w \in Inst
          /\ p # Root => w \notin FormalAddr(f, k, Parent[p])
      BY <2>6, SameWords DEF Contract!Fed
    <3>2. PICK v \in Contract!Variable(f, k, p) : <<v, w, "DATA_ALIAS">> \in prog.dataDeps
      BY <2>6 DEF Contract!Fed
    <3>3. <<ValNode(v), ValNode(w), "DATA_ALIAS">> \in edges
      BY <2>2, <3>2 DEF AliasMade
    <3>4. v \in FormalAddr(f, k, p) /\ HasNode(v)
      BY <2>4
    <3> DEFINE y == <<p, w>>
    <3>5. /\ y \in Shape(f, k) \X Inst
          /\ \E u \in FormalAddr(f, k, y[1]) :
                HasNode(u) /\ <<ValNode(u), ValNode(y[2]), "DATA_ALIAS">> \in edges
          /\ y[1] # Root => y[2] \notin FormalAddr(f, k, Parent[y[1]])
      BY <3>1, <3>3, <3>4
    <3>6. <<FIn(f, k, y[1]), ValNode(y[2]), "PARAMETER_IN">> \in FormalInEdges(f, k)
      <4> HIDE DEF y
      <4> QED
        BY <3>5 DEF FormalInEdges
    <3> QED
      BY <2>1, <3>6
  <2> QED
    BY <2>5, <2>6
<1> QED
  BY <1>3, <1>4, NewlyVisited

\* Only the loop that makes the formal trees finds garbage on the heap.
LEMMA DirtyGrows ==
    ASSUME [Next]_vars
    PROVE  dirty \subseteq dirty' /\ (dirty' # dirty => HeapGarbage /\ BuildFunction)
<1>1. CASE BuildFunction
  <2>1. PICK d : (d # {} => HeapGarbage) /\ dirty' = dirty \cup {<<F, k>> : k \in d}
    BY <1>1 DEF BuildFunction
  <2> QED
    BY <1>1, <2>1
<1>2. CASE UNCHANGED vars
  BY <1>2 DEF vars, state
<1>3. CASE \/ BuildGlobals \/ BuildCallWrappers \/ BuildGlobalAnnotations
           \/ AddDataDependencies \/ ConnectIntra \/ LeaveFunction \/ Done
  BY <1>3 DEF BuildGlobals, BuildCallWrappers, BuildGlobalAnnotations, AddDataDependencies,
              ConnectIntra, LeaveFunction, Done, vars, state
<1>4. ASSUME NEW c \in Inst, ConnectCall(c) \/ ConnectIndirect(c) \/ SkipCall(c)
      PROVE  dirty' = dirty
  BY <1>4 DEF ConnectCall, ConnectIndirect, SkipCall, state
<1> QED
  BY <1>1, <1>2, <1>3, <1>4 DEF Next

\* A call that is connected is linked place by place: its trees have the sizes
\* of the callee's, but for what garbage makes of those.
LEMMA ConnectedFlowsIn ==
    ASSUME TInv, NEW c \in Inst, DirectCall(c), ConnectCall(c)
    PROVE  \A m \in Joined(c, Callee(c)) : \A p \in Shape(Callee(c), m[2]) :
              <<Callee(c), m[2]>> \notin dirty =>
                 <<AIn(c, Callee(c), m[1], p), FIn(Callee(c), m[2], p), "PARAMETER_IN">> \in edges'
<1> DEFINE f == Callee(c)
<1>1. TreeEdges(c, f) \subseteq edges'
  BY DEF ConnectCall, CallEdges
<1>2. prog.kind[c] = "call" /\ f \in Func
  BY DEF DirectCall
<1> SUFFICES ASSUME NEW m \in Joined(c, f), NEW p \in Shape(f, m[2]), <<f, m[2]>> \notin dirty
             PROVE  <<AIn(c, f, m[1], p), FIn(f, m[2], p), "PARAMETER_IN">> \in edges'
  OBVIOUS
<1>3. SameSize(f, m[1], m[2])
  BY <1>2, JoinedSameShape DEF TInv
<1> HIDE DEF f
<1>4. <<AIn(c, f, m[1], p), FIn(f, m[2], p), "PARAMETER_IN">> \in InTreeEdges(c, f, m[1], m[2])
  BY <1>3 DEF InTreeEdges
<1> QED
  BY <1>1, <1>4 DEF TreeEdges

LEMMA CallInvNext ==
    ASSUME TInv, VisitInv, CallInv, [Next]_vars PROVE CallInv'
<1>1. prog' = prog /\ edges \subseteq edges' /\ dirty \subseteq dirty'
  BY EdgesGrow, DirtyGrows
<1>2. /\ \A c, f : Callee(c)' = Callee(c) /\ Joined(c, f)' = Joined(c, f)
      /\ \A f, k : Shape(f, k)' = Shape(f, k)
      /\ \A c : DirectCall(c)' <=> DirectCall(c)
  BY <1>1, ProgramFixed DEF DirectCall, Shape
<1>3. \A c, f : InvokeEdges(c, f)' = InvokeEdges(c, f)
  BY <1>1 DEF InvokeEdges, RetsOf, InstsOf, ValNode
<1> SUFFICES ASSUME NEW c \in Inst, DirectCall(c), Processed(c)'
             PROVE  InvokeEdges(c, Callee(c)) \subseteq edges' /\ FlowsIn(c)'
  BY <1>2, <1>3 DEF CallInv
<1>4. \/ Processed(c)
      \/ ConnectCall(c)
  BY NewlyProcessed
<1>5. InvokeEdges(c, Callee(c)) \subseteq edges'
  <2>1. CASE Processed(c)
    BY <1>1, <2>1 DEF CallInv
  <2>2. CASE ConnectCall(c)
    BY <2>2 DEF ConnectCall, CallEdges
  <2> QED
    BY <1>4, <2>1, <2>2
<1>6. \A m \in Joined(c, Callee(c)) : \A p \in Shape(Callee(c), m[2]) :
          <<Callee(c), m[2]>> \notin dirty =>
             <<AIn(c, Callee(c), m[1], p), FIn(Callee(c), m[2], p), "PARAMETER_IN">> \in edges'
  <2>1. CASE Processed(c)
    BY <1>1, <2>1 DEF CallInv, FlowsIn
  <2>2. CASE ConnectCall(c)
    BY <2>2, ConnectedFlowsIn
  <2> QED
    BY <1>4, <2>1, <2>2
<1> QED
  BY <1>1, <1>2, <1>5, <1>6 DEF FlowsIn, AIn, FIn

\* An argument with a tree shares the one that was made first for its value.
LEMMA FirstTree ==
    ASSUME ProgOK, NEW c \in Inst, NEW f \in Func, NEW k \in Built(c, f)
    PROVE  \E j \in TreeOf(c, f, k) : j \in 1 .. k
<1> DEFINE same == {i \in Built(c, f) : Actual(c, i) = Actual(c, k)}
           Less == OpToRel(<, Nat)
<1>1. Built(c, f) \subseteq Nat \ {0}
  BY PositionsTyped DEF Positions
<1>2. IsWellFoundedOn(Less, Nat)
  BY NatLessThanWellFounded
<1>3. \A i, n \in Nat : i < n => <<i, n>> \in Less
  BY DEF OpToRel
<1> HIDE DEF Less
<1>4. PICK j \in same : \A i \in same : <<i, j>> \notin Less
  <2>1. same \subseteq Nat /\ same # {}
    BY <1>1
  <2> QED
    BY <1>2, <2>1, WFMin
<1>5. ASSUME NEW i \in same PROVE j <= i
  <2>1. i \in Nat /\ j \in Nat /\ <<i, j>> \notin Less
    BY <1>1, <1>4
  <2>2. ~(i < j)
    BY <1>3, <2>1
  <2> QED
    BY <2>1, <2>2
<1> QED
  BY <1>1, <1>5 DEF TreeOf

\* In the finished graph a direct call is complete.
LEMMA CallComplete ==
    ASSUME TInv, NodeInv, CallInv, WriteFlowsBack, pc = "done",
           NEW c \in Inst, DirectCall(c)
    PROVE  Contract!Complete(c)
<1> DEFINE f == Callee(c)
           In(j, k, p)  == <<AIn(c, f, j, p), FIn(f, k, p), "PARAMETER_IN">>
           Out(j, k, p) == <<FOut(f, k, p), AOut(c, f, j, p), "PARAMETER_OUT">>
<1>1. f \in Func /\ ProgOK
  BY DEF DirectCall, TInv
<1>2. InvokeEdges(c, f) \subseteq edges /\ FlowsIn(c)
  BY DEF CallInv, Processed
<1>0. f \notin prog.varArg => NumActual(c) = prog.arity[f]
  <2>1. CallsFit(prog) /\ prog.kind[c] = "call" /\ prog.callee[c] = f
    BY <1>1, ProgramsAssumption DEF ProgOK, WellFormed, DirectCall, Callee
  <2> QED
    BY <1>1, <2>1 DEF CallsFit, MayCall, NumActual
<1>3. ASSUME NEW k \in TreePrefix(f), f \notin prog.varArg, NEW p \in Shape(f, k)
      PROVE  \E j \in 1 .. k :
                /\ Actual(c, j) = Actual(c, k)
                /\ <<f, k>> \notin dirty => In(j, k, p) \in edges
                /\ Contract!WrittenAt(f, k, p) /\ Place(f) <= Place(prog.owner[c])
                      => Out(j, k, p) \in edges
  <2>1. k \in Built(c, f) /\ k \in Positions(f)
    BY <1>3 DEF Built, TreePrefix
  <2>2. PICK j \in TreeOf(c, f, k) : j \in 1 .. k
    BY <1>1, <2>1, FirstTree
  <2>3. HasTree(f, k)
    BY <1>3 DEF HasTree
  <2>4. <<j, k>> \in Joined(c, f)
    BY <1>0, <1>3, <2>1, <2>2, <2>3 DEF Joined
  <2>5. <<f, k>> \notin dirty => In(j, k, p) \in edges
    BY <1>2, <2>4 DEF FlowsIn
  <2>6. ASSUME Contract!WrittenAt(f, k, p), Place(f) <= Place(prog.owner[c])
        PROVE  Out(j, k, p) \in edges
    <3>1. FlowsBack(c)
      BY <2>6 DEF WriteFlowsBack, Processed
    <3>2. PICK v \in FormalAddr(f, k, p) : v \in WithNode /\ Stored(v)
      BY <2>6, WrittenAtIs
    <3>3. HasNode(v)
      BY <1>1, <3>2, AllMade DEF NodeInv, HasNode
    <3>4. <<p, v>> \in Written(f, k)
      BY <3>2, <3>3 DEF Written, FormalVars, FormalAddr
    <3> QED
      BY <2>4, <3>1, <3>4 DEF FlowsBack
  <2> QED
    BY <2>2, <2>5, <2>6 DEF TreeOf
<1>4. /\ <<ValNode(c), ValNode(f), "CONTROLDEP_CALLINV">> \in edges
      /\ \A r \in RetsOf(f) : /\ <<ValNode(r), ValNode(c), "CONTROLDEP_CALLRET">> \in edges
                              /\ <<ValNode(r), ValNode(c), "DATA_RET">> \in edges
  BY <1>2 DEF InvokeEdges
<1>5. /\ Contract!Callee(c) = f
      /\ Contract!TreePrefix(f) = TreePrefix(f)
      /\ Contract!RetsOf(f) = RetsOf(f)
      /\ \A k : Contract!Shape(f, k) = Shape(f, k)
  BY SameWords, SameTrees
<1>6. /\ Contract!NumActual(c) = NumActual(c)
      /\ \A k : Contract!Actual(c, k) = Actual(c, k)
      /\ \A g : Contract!Place(g) = Place(g)
  BY SameWords
<1>7. /\ \A v : Contract!ValNode(v) = ValNode(v)
      /\ \A j, k, p : <<Contract!AIn(c, f, j, p), Contract!FIn(f, k, p), "PARAMETER_IN">> = In(j, k, p)
      /\ \A j, k, p : <<Contract!FOut(f, k, p), Contract!AOut(c, f, j, p), "PARAMETER_OUT">> = Out(j, k, p)
  BY SameNodes
<1> HIDE DEF f, In, Out
<1> QED
  BY <1>3, <1>4, <1>5, <1>6, <1>7 DEF Contract!Complete

LEMMA FinishedComplete ==
    ASSUME TInv, NodeInv, EntryInv, FedInv, CallInv, WriteFlowsBack, pc = "done"
    PROVE  Contract!CompleteGraph
<1>1. \A i \in Inst : <<ValNode(prog.owner[i]), ValNode(i), "CONTROLDEP_ENTRY">> \in edges
  <2> TAKE i \in Inst
  <2>1. prog.owner[i] \in Func
    BY OwnerTyped DEF TInv
  <2>2. ControlEdges(prog.owner[i]) \subseteq edges
    BY <2>1 DEF EntryInv, Visited
  <2> QED
    BY <2>2 DEF ControlEdges, InstsOf
<1>2. \A c \in Inst : DirectCall(c) => Contract!Complete(c)
  BY CallComplete
<1>3. \A f \in Func : \A k \in TreePrefix(f) : \A p \in Shape(f, k) : \A w \in Contract!Fed(f, k, p) :
          <<FIn(f, k, p), ValNode(w), "PARAMETER_IN">> \in edges
  BY DEF FedInv, Visited
<1> QED
  BY <1>1, <1>2, <1>3, SameWords, SameTrees, SameNodes DEF Contract!CompleteGraph

\* What refines the contract: all of the invariants together.
FullInv ==
    /\ TInv /\ VisitInv /\ EmptyAtFirst
    /\ NodeInv /\ WriteFlowsBack
    /\ ContractInv

LEMMA FullInvInit ==
    ASSUME Init PROVE FullInv
<1>1. TInv
  BY TInvInit
<1>2. VisitInv /\ EmptyAtFirst
  BY DEF Init, VisitInv, Visited, EmptyAtFirst
<1>3. NodeInv
  BY DEF Init, NodeInv, NodesMade, Made, GlobalsMade, OnlyValues, HasNode, WholeIn, SettledIn
<1>4. WriteFlowsBack /\ CallInv
  BY DEF Init, WriteFlowsBack, CallInv, Processed
<1>5. AliasInv /\ AliasMade /\ TagWritten /\ JustInv /\ EntryInv /\ FedInv
  BY DEF Init, AliasInv, AliasMade, TagWritten, JustInv, EntryInv, FedInv, Visited
<1> QED
  BY <1>1, <1>2, <1>3, <1>4, <1>5 DEF FullInv, ContractInv

LEMMA FullInvNext ==
    ASSUME FullInv, [Next]_vars PROVE FullInv'
<1>1. (TInv /\ VisitInv /\ EmptyAtFirst)'
  BY TInvNext, VisitInvNext, EmptyAtFirstNext DEF FullInv
<1>2. (NodeInv /\ WriteFlowsBack)'
  BY NodeInvNext, WriteFlowsBackNext DEF FullInv
<1>3. (AliasInv /\ AliasMade /\ TagWritten /\ JustInv)'
  BY AliasInvNext, AliasMadeNext, TagWrittenNext, JustInvNext DEF FullInv, ContractInv, NodeInv
<1>4. (EntryInv /\ FedInv /\ CallInv)'
  BY EntryInvNext, FedInvNext, CallInvNext DEF FullInv, ContractInv
<1> QED
  BY <1>1, <1>2, <1>3, <1>4 DEF FullInv, ContractInv

\* Nothing happens any more to a finished graph.
LEMMA DoneIsLast ==
    ASSUME [Next]_vars, pc = "done" PROVE UNCHANGED Contract!vars
BY DEF Next, BuildGlobals, BuildFunction, BuildCallWrappers, BuildGlobalAnnotations,
       AddDataDependencies, ConnectIntra, ConnectCall, ConnectIndirect, SkipCall, NextCall,
       LeaveFunction, Done, vars, state, Contract!vars

LEMMA StepRefines ==
    ASSUME FullInv, [Next]_vars, FullInv', (pc = "done" => Contract!CompleteGraph)'
    PROVE  [Contract!Next]_(Contract!vars)
<1>1. CASE pc = "done"
  BY <1>1, DoneIsLast
<1>2. CASE pc # "done"
  <2>1. prog' = prog /\ edges \subseteq edges' /\ dirty \subseteq dirty'
    BY EdgesGrow, DirtyGrows
  <2>2. dirty' # dirty => HeapGarbage
    BY DirtyGrows
  <2>3. \A e \in edges' : Contract!Justified(e)'
    BY DEF FullInv, ContractInv, JustInv
  <2>4. (pc = "done")' => Contract!CompleteGraph'
    OBVIOUS
  <2> QED
    BY <1>2, <2>1, <2>2, <2>3, <2>4 DEF Contract!Next
<1> QED
  BY <1>1, <1>2

\* Whatever the programs, their order and the garbage on the heap, the
\* construction does what its clients may expect: the graph only grows, every
\* edge is justified by the program, and in the finished graph every
\* instruction hangs from its function and every direct call is linked in and,
\* where its callee comes first, out again.
THEOREM ConstructionImplementsContract == Spec => ImplementsContract
<1>1. Init => FullInv
  BY FullInvInit
<1>2. FullInv /\ [Next]_vars => FullInv'
  BY FullInvNext
<1>3. FullInv => (pc = "done" => Contract!CompleteGraph)
  BY FinishedComplete DEF FullInv, ContractInv
<1>4. FullInv /\ [Next]_vars /\ FullInv' /\ (pc = "done" => Contract!CompleteGraph)'
      => [Contract!Next]_(Contract!vars)
  BY StepRefines
<1>5. Init => Contract!Init
  <2>1. Init => WellTyped(prog)
    BY ProgramTyped DEF Init, ProgOK
  <2>2. WellTyped(prog) => Contract!WellTyped(prog)
    BY DEF WellTyped, Contract!WellTyped, Contract!InstKind, InstKind, Contract!Value, Value,
           Contract!DataDepType, DataDepType
  <2> QED
    BY <2>1, <2>2 DEF Init, Contract!Init
<1> QED
  BY <1>1, <1>2, <1>3, <1>4, <1>5, PTL DEF Spec, ImplementsContract, Contract!Spec
=============================================================================
